---- MODULE Spec2Model ----
(***************************************************************************)
(* Agent Execution Engine of ia-lab-agentkit: StateMachine, PolicyGate and *)
(* the AgentRuntime.processMessage loop, with the model backend, the tool  *)
(* executor and the memory store as nondeterministic collaborators.        *)
(* Strings the code inspects character by character (user messages, intent *)
(* patterns) are sequences of one-character strings; names the code only   *)
(* compares for equality (state ids, tool names) are TLA+ strings.         *)
(***************************************************************************)
EXTENDS Integers, Sequences, FiniteSets, TLC

\* ---------------------------------------------------------------- bounds
\* largest maxIterationsPerState / maxTotalIterations option explored
MaxPerStateOpt == 2
MaxTotalOpt == 3
\* processMessage calls made on one runtime
MaxCalls == 2
\* model invocations over the whole life of a runtime that takes a second call
MaxModelCalls == 2
\* longest tool-call list handed to the PolicyGate on its own
MaxGateCalls == 3
\* latest clock value explored
MaxNow == 2
\* longest history of a stored session
MaxStored == 21
\* setSessionState calls one caller makes
MaxSets == 2

\* ------------------------------------------------------- generic helpers
NoFallback == ""

Range(s) == {s[i] : i \in 1..Len(s)}

\* Array.prototype.find / findIndex over the outcomes of the predicate: index of
\* the first TRUE of the boolean sequence, 0 if there is none
FirstIndex(hits) ==
  IF \E i \in 1..Len(hits) : hits[i]
  THEN CHOOSE i \in 1..Len(hits) : hits[i] /\ \A j \in 1..(i-1) : ~hits[j]
  ELSE 0

\* Set insertion order: append x unless already present
SetAdd(s, x) == IF x \in Range(s) THEN s ELSE Append(s, x)

RECURSIVE SetAddAll(_, _)
SetAddAll(s, xs) ==
  IF xs = <<>> THEN s ELSE SetAddAll(SetAdd(s, Head(xs)), Tail(xs))

\* ------------------------------------------------------ string functions
\* String.prototype.toLowerCase on the letters the manifests and messages use
LowerChar(c) ==
  CASE c = "H" -> "h"
    [] c = "P" -> "p"
    [] c = "A" -> "a"
    [] c = "I" -> "i"
    [] OTHER -> c

toLowerCase(s) == [i \in 1..Len(s) |-> LowerChar(s[i])]

\* String.prototype.includes
includes(s, sub) ==
  \E i \in 0..(Len(s) - Len(sub)) :
    \A j \in 1..Len(sub) : s[i + j] = sub[j]

\* String.prototype.split on a one-character separator
RECURSIVE split(_, _)
split(s, sep) ==
  LET k == FirstIndex([i_ \in 1..Len(s) |-> s[i_] = sep])
  IN IF k = 0 THEN <<s>>
     ELSE <<SubSeq(s, 1, k - 1)>> \o split(SubSeq(s, k + 1, Len(s)), sep)

\* String.prototype.trim (blanks only)
RECURSIVE trim(_)
trim(s) ==
  IF s = <<>> THEN s
  ELSE IF Head(s) = " " THEN trim(Tail(s))
  ELSE IF s[Len(s)] = " " THEN trim(SubSeq(s, 1, Len(s) - 1))
  ELSE s

\* ------------------------------------------------------------- manifests
\* the four reserved tools
InternalTools == <<"kb.search", "kb.open", "notes.write", "notes.read">>

\* manifest.tools.tools of every manifest below (names of the registered tools)
Registry == <<"symptoms.analyze", "db.write">>

\* names a model backend may put alone in a turn; "ghost.tool" is in no registry
ProposedNames == {"symptoms.analyze", "ghost.tool", "notes.write"}

SuccessPattern == <<"s","u","c","c","e","s","s">>
ErrorPattern == <<"e","r","r","o","r">>

HeadacheOrPain ==
  <<"h","e","a","d","a","c","h","e","|","p","a","i","n">>

Intent(v, to, prio) ==
  [when |-> [type |-> "intent", value |-> v], to_state |-> to, priority |-> prio]

Timeout(ms, to, prio) ==
  [when |-> [type |-> "timeout", value |-> ms], to_state |-> to, priority |-> prio]

\* parts is the condition after condition.split(/\s+(op)\s+/), with the variable
\* already cut at its dots: <<variable parts, operator, value>>
Condition(parts, to, prio) ==
  [when |-> [type |-> "condition", value |-> parts], to_state |-> to,
   priority |-> prio]

ToolResultTrigger(tool, pattern, to, prio) ==
  [when |-> [type |-> "tool_result", value |-> <<tool, pattern>>],
   to_state |-> to, priority |-> prio]

\* a State as StateSchema completes it: max_iterations defaults to 10
StateDef(id, tools, transitions, terminal) ==
  [id |-> id, name |-> id, allowed_tools |-> tools,
   transitions |-> transitions, is_terminal |-> terminal, max_iterations |-> 10]

\* spec section 8: welcome --intent "headache|pain"--> triage (terminal)
TriageManifest ==
  [states |-> << StateDef("welcome", <<>>,
                          <<Intent(HeadacheOrPain, "triage", 0)>>, FALSE),
                 StateDef("triage", <<"symptoms.analyze">>, <<>>, TRUE) >>,
   initial_state |-> "welcome",
   fallback_state |-> NoFallback,
   global_allowed_tools |-> <<>>,
   tools |-> Registry]

\* one non-terminal state with its own cap of one iteration, no transitions,
\* no fallback
SoloManifest ==
  [states |-> << [StateDef("solo", <<"symptoms.analyze">>, <<>>, FALSE)
                    EXCEPT !.max_iterations = 1] >>,
   initial_state |-> "solo",
   fallback_state |-> NoFallback,
   global_allowed_tools |-> <<>>,
   tools |-> Registry]

\* competing transitions with priorities 1, 5, 5, 3 and 2, and a fallback state
PriorityManifest ==
  [states |-> << StateDef("start", <<"symptoms.analyze">>,
                   << Intent(<<"a">>, "low", 1),
                      Intent(<<"h","e","a","d">>, "high", 5),
                      Intent(<<"a","c","h","e">>, "tie", 5),
                      ToolResultTrigger("symptoms.analyze", SuccessPattern, "low", 3),
                      ToolResultTrigger("symptoms.analyze", ErrorPattern, "low", 2) >>,
                   FALSE),
                 StateDef("high", <<>>, <<>>, FALSE),
                 StateDef("tie", <<>>, <<>>, FALSE),
                 StateDef("low", <<>>, <<>>, TRUE),
                 StateDef("safe", <<>>, <<>>, FALSE) >>,
   initial_state |-> "start",
   fallback_state |-> "safe",
   global_allowed_tools |-> <<"db.write">>,
   tools |-> Registry]

\* a manifest that validateFSMIntegrity rejects: its fallback state is missing
DanglingManifest ==
  [states |-> << StateDef("only", <<>>, <<>>, FALSE) >>,
   initial_state |-> "only",
   fallback_state |-> "missing",
   global_allowed_tools |-> <<>>,
   tools |-> Registry]

Manifests == {TriageManifest, SoloManifest, PriorityManifest, DanglingManifest}

IHaveAHeadache ==
  <<"I"," ","h","a","v","e"," ","a"," ","h","e","a","d","a","c","h","e">>
Ok == <<"o","k">>

UserMessages == {IHaveAHeadache, Ok}

\* ---------------------------------------------------------- StateMachine
\* the wall clock: what Date.now() returns, in milliseconds
VARIABLE now

HasState(m, stateId) == \E i \in 1..Len(m.states) : m.states[i].id = stateId

\* StateMachine.getState, for an id that HasState accepts
getState(m, stateId) ==
  m.states[FirstIndex([i_ \in 1..Len(m.states) |-> m.states[i_].id = stateId])]

\* insert t behind every element whose priority is >= its own (stable, descending)
RECURSIVE InsertByPriority(_, _)
InsertByPriority(sorted, t) ==
  IF sorted = <<>> THEN <<t>>
  ELSE IF Head(sorted).priority >= t.priority
       THEN <<Head(sorted)>> \o InsertByPriority(Tail(sorted), t)
       ELSE <<t>> \o sorted

\* variant of the sort that is not stable: equal priorities come out in reverse
\* declaration order
RECURSIVE SortReversedTies(_)
SortReversedTies(ts) ==
  IF ts = <<>> THEN <<>>
  ELSE LET rest == SortReversedTies(Tail(ts))
           t == Head(ts)
           k == FirstIndex([i_ \in 1..Len(rest) |-> rest[i_].priority < t.priority])
       IN IF k = 0 THEN Append(rest, t)
          ELSE SubSeq(rest, 1, k - 1) \o <<t>> \o SubSeq(rest, k, Len(rest))

\* [...state.transitions].sort((a, b) => b.priority - a.priority)
RECURSIVE sortedTransitions(_)
sortedTransitions(ts) ==
  IF ts = <<>> THEN <<>>
  ELSE InsertByPriority(sortedTransitions(SubSeq(ts, 1, Len(ts) - 1)), ts[Len(ts)])

matchesIntent(intent, context) ==
  LET message == toLowerCase(context.lastUserMessage)
      keywords == split(toLowerCase(intent), "|")
  IN \E k \in 1..Len(keywords) : includes(message, trim(keywords[k]))

\* value is the pattern after pattern.split(':'): <<toolName, resultPattern>>
matchesToolResult(pattern, context) ==
  IF context.lastToolResult = <<>> THEN FALSE
  ELSE
    LET toolName == pattern[1]
        resultPattern == pattern[2]
        k == FirstIndex([i_ \in 1..Len(context.lastToolResult) |->
                           context.lastToolResult[i_].toolName = toolName])
    IN IF k = 0 THEN FALSE
       ELSE LET matchingResult == context.lastToolResult[k]
            IN IF resultPattern = SuccessPattern THEN matchingResult.result.success
               ELSE IF resultPattern = ErrorPattern THEN ~matchingResult.result.success
               ELSE includes(matchingResult.result.output, resultPattern)

Digits == <<"0", "1", "2", "3", "4", "5", "6", "7", "8", "9">>

isDigit(c) == c \in Range(Digits)

DigitValue(c) == FirstIndex([i_ \in 1..Len(Digits) |-> Digits[i_] = c]) - 1

\* value of the longest prefix of digits of s, continuing from acc
RECURSIVE DigitsPrefix(_, _)
DigitsPrefix(s, acc) ==
  IF s = <<>> \/ ~isDigit(Head(s)) THEN acc
  ELSE DigitsPrefix(Tail(s), 10 * acc + DigitValue(Head(s)))

\* parseInt(value, 10): <<>> for NaN, else <<n>>; leading blanks and a sign are
\* accepted, what follows the digits is ignored
parseInt(value) ==
  LET s == trim(value)
      signed == s # <<>> /\ Head(s) \in {"-", "+"}
      body == IF signed THEN Tail(s) ELSE s
  IN IF body = <<>> \/ ~isDigit(Head(body)) THEN <<>>
     ELSE IF signed /\ Head(s) = "-" THEN <<0 - DigitsPrefix(body, 0)>>
     ELSE <<DigitsPrefix(body, 0)>>

\* variant of checkTimeout that needs the threshold to be exceeded
checkTimeoutStrict(value, context) ==
  LET timeoutMs == parseInt(value)
  IN IF timeoutMs = <<>> THEN FALSE
     ELSE now - context.stateEnteredAt > timeoutMs[1]

\* StateMachine.checkTimeout: Date.now() is the clock `now`
checkTimeout(value, context) ==
  LET timeoutMs == parseInt(value)
  IN IF timeoutMs = <<>> THEN FALSE
     ELSE now - context.stateEnteredAt >= timeoutMs[1]

\* JavaScript values a condition variable can resolve to, as <<type, payload>>
Undefined == <<"undefined">>
Null == <<"null">>
Bool(b) == <<"boolean", b>>
Num(n) == <<"number", n>>
Str(s) == <<"string", s>>

\* Number(string) for strings of digits, blanks and letters: <<>> for NaN
StringToNumber(s) ==
  LET t == trim(s)
  IN IF t = <<>> THEN <<0>>
     ELSE IF \A i \in 1..Len(t) : isDigit(t[i]) THEN <<DigitsPrefix(t, 0)>>
     ELSE <<>>

\* Number(value): <<>> for NaN, else <<n>>
Number(v) ==
  CASE v[1] = "undefined" -> <<>>
    [] v[1] = "null" -> <<0>>
    [] v[1] = "boolean" -> IF v[2] THEN <<1>> ELSE <<0>>
    [] v[1] = "number" -> <<v[2]>>
    [] v[1] = "string" -> StringToNumber(v[2])

\* decimal text of a natural number
RECURSIVE NumberText(_)
NumberText(n) ==
  IF n < 10 THEN <<Digits[n + 1]>>
  ELSE Append(NumberText(n \div 10), Digits[(n % 10) + 1])

\* String(value)
String(v) ==
  CASE v[1] = "undefined" -> <<"u","n","d","e","f","i","n","e","d">>
    [] v[1] = "null" -> <<"n","u","l","l">>
    [] v[1] = "boolean" -> IF v[2] THEN <<"t","r","u","e">>
                           ELSE <<"f","a","l","s","e">>
    [] v[1] = "number" -> NumberText(v[2])
    [] v[1] = "string" -> v[2]

\* metadata?.[key]: metadata is a sequence of [key, value] entries
Lookup(metadata, key) ==
  LET k == FirstIndex([i_ \in 1..Len(metadata) |-> metadata[i_].key = key])
  IN IF k = 0 THEN Undefined ELSE metadata[k].value

\* StateMachine.resolveVariable; parts is variable.split('.')
resolveVariable(parts, context) ==
  IF parts[1] = "metadata" THEN Lookup(context.metadata, Tail(parts))
  ELSE IF parts[1] = "iteration" THEN Num(context.iteration)
  ELSE IF parts[1] = "tool_calls_count" THEN Num(context.toolCallsCount)
  ELSE Lookup(context.metadata, parts)

\* StateMachine.evaluateCondition
evaluateCondition(condition, context) ==
  IF Len(condition) # 3 THEN FALSE
  ELSE
    LET operator == condition[2]
        value == condition[3]
        actualValue == resolveVariable(condition[1], context)
        left == Number(actualValue)
        right == StringToNumber(value)
        bothNumbers == left # <<>> /\ right # <<>>
    IN CASE operator = "==" -> String(actualValue) = value
         [] operator = "!=" -> String(actualValue) # value
         [] operator = ">" -> bothNumbers /\ left[1] > right[1]
         [] operator = "<" -> bothNumbers /\ left[1] < right[1]
         [] operator = ">=" -> bothNumbers /\ left[1] >= right[1]
         [] operator = "<=" -> bothNumbers /\ left[1] <= right[1]
         [] operator = "contains" -> includes(String(actualValue), value)
         [] OTHER -> FALSE

shouldTransition(transition, context) ==
  CASE transition.when.type = "intent" ->
         matchesIntent(transition.when.value, context)
    [] transition.when.type = "condition" ->
         evaluateCondition(transition.when.value, context)
    [] transition.when.type = "tool_result" ->
         matchesToolResult(transition.when.value, context)
    [] transition.when.type = "timeout" ->
         checkTimeout(transition.when.value, context)
    [] OTHER -> FALSE

\* variant of evaluateTransitions that takes the first declared transition when
\* nothing matches
evaluateTransitionsDefaulting(m, cur, context) ==
  LET sorted == sortedTransitions(getState(m, cur).transitions)
      k == FirstIndex([i_ \in 1..Len(sorted) |-> shouldTransition(sorted[i_], context)])
  IN IF k # 0
     THEN [transitioned |-> TRUE, fromState |-> cur,
           toState |-> sorted[k].to_state, trigger |-> <<sorted[k]>>]
     ELSE IF sorted # <<>>
     THEN [transitioned |-> FALSE, fromState |-> cur,
           toState |-> sorted[1].to_state, trigger |-> <<>>]
     ELSE [transitioned |-> FALSE, fromState |-> cur,
           toState |-> cur, trigger |-> <<>>]

\* StateMachine.evaluateTransitions from state `cur`; trigger is <<>> or <<transition>>
evaluateTransitions(m, cur, context) ==
  LET sorted == sortedTransitions(getState(m, cur).transitions)
      k == FirstIndex([i_ \in 1..Len(sorted) |-> shouldTransition(sorted[i_], context)])
  IN IF k # 0
     THEN [transitioned |-> TRUE, fromState |-> cur,
           toState |-> sorted[k].to_state, trigger |-> <<sorted[k]>>]
     ELSE [transitioned |-> FALSE, fromState |-> cur,
           toState |-> cur, trigger |-> <<>>]

\* variant of transitionTo that moves the pointer before it validates the target
transitionToAssignFirst(m, cur, stateId) ==
  [kind |-> IF HasState(m, stateId) THEN "returned" ELSE "raised",
   currentStateId |-> stateId]

\* StateMachine.transitionTo from state `cur`: how the call ends and the pointer
\* after it
transitionTo(m, cur, stateId) ==
  IF ~HasState(m, stateId)
  THEN [kind |-> "raised", currentStateId |-> cur]
  ELSE [kind |-> "returned", currentStateId |-> stateId]

\* StateMachine.goToFallback from state `cur`: its return value and the pointer
goToFallback(m, cur) ==
  IF m.fallback_state # NoFallback
  THEN [moved |-> TRUE, currentStateId |-> m.fallback_state]
  ELSE [moved |-> FALSE, currentStateId |-> cur]

\* ------------------------------------------------------------ PolicyGate
\* variant of getAllowedTools that forgets the global tools
getAllowedToolsStateOnly(m, state) ==
  SetAddAll(SetAddAll(<<>>, state.allowed_tools), InternalTools)

\* PolicyGate.getAllowedTools: a Set in insertion order
getAllowedTools(m, state) ==
  SetAddAll(SetAddAll(SetAddAll(<<>>, m.global_allowed_tools),
                      state.allowed_tools),
            InternalTools)

ToolNames(toolCalls) == [i \in 1..Len(toolCalls) |-> toolCalls[i].name]

\* variant of validate that blocks nothing
validateLenient(m, stateId, toolCalls) ==
  [allowed |-> TRUE, blockedTools |-> <<>>]

\* PolicyGate.validate
validate(m, stateId, toolCalls) ==
  IF ~HasState(m, stateId)
  THEN [allowed |-> FALSE, blockedTools |-> ToolNames(toolCalls)]
  ELSE LET allowedTools == Range(getAllowedTools(m, getState(m, stateId)))
           blockedTools == SelectSeq(ToolNames(toolCalls),
                                     LAMBDA n : n \notin allowedTools)
       IN [allowed |-> blockedTools = <<>>, blockedTools |-> blockedTools]

\* variant of filter that lets every call through for an unknown state
filterFailOpen(m, stateId, toolCalls) ==
  IF ~HasState(m, stateId)
  THEN [allowed |-> toolCalls, blocked |-> <<>>]
  ELSE LET allowedTools == Range(getAllowedTools(m, getState(m, stateId)))
       IN [allowed |-> SelectSeq(toolCalls, LAMBDA c : c.name \in allowedTools),
           blocked |-> SelectSeq(toolCalls, LAMBDA c : c.name \notin allowedTools)]

\* PolicyGate.filter
filter(m, stateId, toolCalls) ==
  IF ~HasState(m, stateId)
  THEN [allowed |-> <<>>, blocked |-> toolCalls]
  ELSE LET allowedTools == Range(getAllowedTools(m, getState(m, stateId)))
       IN [allowed |-> SelectSeq(toolCalls, LAMBDA c : c.name \in allowedTools),
           blocked |-> SelectSeq(toolCalls, LAMBDA c : c.name \notin allowedTools)]

\* PolicyGate.generateConstraintMessage, as the sequence of its parts
generateConstraintMessage(m, stateId, blockedTools) ==
  LET stateName == IF HasState(m, stateId) THEN getState(m, stateId).name ELSE stateId
      allowedTools == IF HasState(m, stateId)
                      THEN getAllowedTools(m, getState(m, stateId)) ELSE <<>>
  IN <<"[POLICY GATE]", stateName>> \o blockedTools
       \o <<"Allowed tools:">> \o (IF allowedTools = <<>> THEN <<"none">> ELSE allowedTools)

\* -------------------------------------------------------- Prompt Compiler
\* manifests with the parts compilePrompt renders
PromptBlock(role, content, prio) ==
  [role |-> role, content |-> content, priority |-> prio]

ToolParameter(name, type, required) ==
  [name |-> name, type |-> type, required |-> required]

ToolDefinition(name, type, description, parameters) ==
  [name |-> name, type |-> type, description |-> description,
   parameters |-> parameters]

PromptState(id, description, blocks, tools, transitions, terminal) ==
  [id |-> id, name |-> id, description |-> description, prompt_blocks |-> blocks,
   allowed_tools |-> tools, transitions |-> transitions, is_terminal |-> terminal,
   max_iterations |-> 10]

AnalyzeTool ==
  ToolDefinition("symptoms.analyze", "http", <<"s","c","o","r","e">>,
                 <<ToolParameter("text", "string", TRUE)>>)
WriteTool ==
  ToolDefinition("db.write", "mcp", <<"p","u","t">>, <<>>)
NotesTool ==
  ToolDefinition("notes.write", "internal", <<"n","o","t","e">>, <<>>)

\* no global tools, no serialization order; `welcome` allows no tool at all
ClinicManifest ==
  [metadata |-> [name |-> "clinic", domain |-> "health", risk_level |-> "medium",
                 data_classification |-> "internal"],
   prd |-> [purpose |-> "triage", scope |-> "symptoms", context_problem |-> "queues"],
   memory |-> [pii_flags |-> <<>>],
   states |-> << PromptState("welcome", "",
                   << PromptBlock("examples", "say hello", 1),
                      PromptBlock("instructions", "greet", 2),
                      PromptBlock("system", "be brief", 2),
                      PromptBlock("context", "front desk", 0) >>,
                   <<>>, <<Intent(HeadacheOrPain, "triage", 0)>>, FALSE),
                 PromptState("triage", "collect symptoms", <<>>,
                   <<"symptoms.analyze", "notes.write">>, <<>>, TRUE) >>,
   initial_state |-> "welcome",
   fallback_state |-> NoFallback,
   global_allowed_tools |-> <<>>,
   tools |-> <<"symptoms.analyze", "db.write", "notes.write">>,
   tool_defs |-> <<AnalyzeTool, WriteTool, NotesTool>>,
   serialization_order |-> <<>>]

\* a global tool, PII flags and an explicit serialization order that lists
\* `symptoms.analyze` before `db.write`
OrderedManifest ==
  [metadata |-> [name |-> "desk", domain |-> "support", risk_level |-> "high",
                 data_classification |-> "restricted"],
   prd |-> [purpose |-> "tickets", scope |-> "orders", context_problem |-> "backlog"],
   memory |-> [pii_flags |-> <<"email">>],
   states |-> << PromptState("start", "open a ticket",
                   <<PromptBlock("instructions", "ask the order id", 0)>>,
                   <<"symptoms.analyze", "db.write">>,
                   <<ToolResultTrigger("symptoms.analyze", SuccessPattern, "closed", 3)>>,
                   FALSE),
                 PromptState("closed", "", <<>>, <<>>, <<>>, TRUE) >>,
   initial_state |-> "start",
   fallback_state |-> NoFallback,
   global_allowed_tools |-> <<"db.write">>,
   tools |-> <<"db.write", "symptoms.analyze">>,
   tool_defs |-> <<WriteTool, AnalyzeTool>>,
   serialization_order |-> <<<<"symptoms.analyze", "db.write">>>>]

\* OrderedManifest with a serialization order that leaves `db.write` out
PartialOrderManifest ==
  [OrderedManifest EXCEPT !.serialization_order = <<<<"symptoms.analyze">>>>]

CompilerManifests == {ClinicManifest, OrderedManifest, PartialOrderManifest}

\* a manifest of `Manifests` as the schemas complete it: no description, no
\* prompt blocks, no PII flags, no serialization order
Authored(m) ==
  [metadata |-> [name |-> "agent", domain |-> "general", risk_level |-> "medium",
                 data_classification |-> "internal"],
   prd |-> [purpose |-> "assist", scope |-> "chat", context_problem |-> "none"],
   memory |-> [pii_flags |-> <<>>],
   states |-> [i \in 1..Len(m.states) |->
                 [PromptState(m.states[i].id, "", <<>>, m.states[i].allowed_tools,
                              m.states[i].transitions, m.states[i].is_terminal)
                    EXCEPT !.max_iterations = m.states[i].max_iterations]],
   initial_state |-> m.initial_state,
   fallback_state |-> m.fallback_state,
   global_allowed_tools |-> m.global_allowed_tools,
   tools |-> <<"symptoms.analyze", "db.write">>,
   tool_defs |-> <<AnalyzeTool, WriteTool>>,
   serialization_order |-> <<>>]

\* `waiting` has a 0 ms timeout (priority 5) next to an intent and a tool-result
\* trigger of lower priority, an intent of higher priority and a timeout whose
\* value is not a number; `chat` has a 2 ms timeout
TimeoutManifest ==
  Authored(
    [states |-> << StateDef("waiting", <<"symptoms.analyze">>,
                     << Intent(<<"a">>, "chat", 1),
                        Intent(<<"h","e","a","d">>, "chat", 7),
                        Timeout(<<"x">>, "never", 9),
                        Timeout(<<"0">>, "expired", 5),
                        ToolResultTrigger("symptoms.analyze", SuccessPattern, "chat", 3) >>,
                     FALSE),
                   StateDef("chat", <<>>, <<Timeout(<<"2">>, "expired", 0)>>, FALSE),
                   StateDef("expired", <<>>, <<>>, TRUE),
                   StateDef("never", <<>>, <<>>, FALSE) >>,
     initial_state |-> "waiting",
     fallback_state |-> NoFallback,
     global_allowed_tools |-> <<>>,
     tools |-> Registry])

NumericOperators == {">", "<", ">=", "<="}

\* literals of a condition: a number, an empty text and a word
ConditionLiterals == {<<"0">>, <<>>, <<"x">>}

\* variables of a condition: a metadata entry and the iteration counter
ConditionVariables == {<<"metadata", "score">>, <<"iteration">>}

\* `check` has one condition trigger, `variable operator literal`
ConditionManifest(variable, operator, literal) ==
  Authored(
    [states |-> << StateDef("check", <<>>,
                     <<Condition(<<variable, operator, literal>>, "matched", 0)>>,
                     FALSE),
                   StateDef("matched", <<>>, <<>>, TRUE) >>,
     initial_state |-> "check",
     fallback_state |-> NoFallback,
     global_allowed_tools |-> <<>>,
     tools |-> Registry])

ConditionManifests ==
  {ConditionManifest(v, o, l) :
     v \in ConditionVariables, o \in NumericOperators, l \in ConditionLiterals}

\* `start` leaves for the terminal state `done` on one tool_result trigger of
\* `symptoms.analyze` with this outcome
RepeatManifest(resultPattern) ==
  [states |-> << StateDef("start", <<"symptoms.analyze">>,
                          <<ToolResultTrigger("symptoms.analyze", resultPattern, "done", 0)>>,
                          FALSE),
                 StateDef("done", <<>>, <<>>, TRUE) >>,
   initial_state |-> "start",
   fallback_state |-> NoFallback,
   global_allowed_tools |-> <<>>,
   tools |-> Registry]

\* the outcomes of a tool_result pattern: success, error, a literal
Outcomes == {SuccessPattern, ErrorPattern, <<"o", "k">>}

RepeatManifests == {Authored(RepeatManifest(o)) : o \in Outcomes}

\* manifests a StateMachine is built on
MachineManifests ==
  CompilerManifests \cup {Authored(m) : m \in Manifests} \cup {TimeoutManifest}
    \cup ConditionManifests \cup RepeatManifests

RetrievalHint(type, id, relevance) ==
  [type |-> type, id |-> id, path |-> "", relevance |-> relevance]

\* hints.sort((a, b) => b.relevance - a.relevance): stable, descending
RECURSIVE InsertByRelevance(_, _)
InsertByRelevance(sorted, h) ==
  IF sorted = <<>> THEN <<h>>
  ELSE IF Head(sorted).relevance >= h.relevance
       THEN <<Head(sorted)>> \o InsertByRelevance(Tail(sorted), h)
       ELSE <<h>> \o sorted

\* variant of the hint sort whose comparator never answers 0: equal relevances
\* change places at every sort
RECURSIVE sortHintsSwappingTies(_)
sortHintsSwappingTies(hints) ==
  IF hints = <<>> THEN <<>>
  ELSE LET rest == sortHintsSwappingTies(Tail(hints))
           h == Head(hints)
           k == FirstIndex([i_ \in 1..Len(rest) |-> rest[i_].relevance < h.relevance])
       IN IF k = 0 THEN Append(rest, h)
          ELSE SubSeq(rest, 1, k - 1) \o <<h>> \o SubSeq(rest, k, Len(rest))

RECURSIVE sortHints(_)
sortHints(hints) ==
  IF hints = <<>> THEN <<>>
  ELSE InsertByRelevance(sortHints(SubSeq(hints, 1, Len(hints) - 1)), hints[Len(hints)])

\* [...state.prompt_blocks].sort((a, b) => b.priority - a.priority)
RECURSIVE sortedBlocks(_)
sortedBlocks(blocks) ==
  IF blocks = <<>> THEN <<>>
  ELSE InsertByPriority(sortedBlocks(SubSeq(blocks, 1, Len(blocks) - 1)),
                        blocks[Len(blocks)])

\* the tool names of the manifests in the order of Array.prototype.sort()
NameOrder ==
  <<"db.write", "ghost.tool", "kb.open", "kb.search", "notes.read", "notes.write",
    "symptoms.analyze">>

NameRank(n) == FirstIndex([i_ \in 1..Len(NameOrder) |-> NameOrder[i_] = n])

\* toolDefs.map((t) => t.name).sort()
RECURSIVE sortNames(_)
sortNames(names) ==
  IF names = <<>> THEN <<>>
  ELSE LET rest == sortNames(SubSeq(names, 1, Len(names) - 1))
           n == names[Len(names)]
           k == FirstIndex([i_ \in 1..Len(rest) |-> NameRank(rest[i_]) > NameRank(n)])
       IN IF k = 0 THEN Append(rest, n)
          ELSE SubSeq(rest, 1, k - 1) \o <<n>> \o SubSeq(rest, k, Len(rest))

\* concatenation of a sequence of sequences
RECURSIVE Flatten(_)
Flatten(ss) == IF ss = <<>> THEN <<>> ELSE Head(ss) \o Flatten(Tail(ss))

\* the compiler's own getAllowedTools (schemas/prd.ts): global and state tools
CompilerGetAllowedTools(m, state) ==
  SetAddAll(SetAddAll(<<>>, m.global_allowed_tools), state.allowed_tools)

getToolDefinitions(m, allowedTools) ==
  SelectSeq(m.tool_defs, LAMBDA t : t.name \in Range(allowedTools))

\* variant that forces a tool call in every state that is not terminal
determineToolChoicePolicyForcing(state, allowedTools) ==
  IF Len(allowedTools) = 0 THEN "none"
  ELSE IF state.is_terminal THEN "auto"
  ELSE "required"

determineToolChoicePolicy(state, allowedTools) ==
  IF Len(allowedTools) = 0 THEN "none"
  ELSE IF state.is_terminal THEN "auto"
  ELSE "auto"

buildIdentitySection(m) ==
  << <<"# Agent Identity">>,
     <<"**Name:**", m.metadata.name>>,
     <<"**Domain:**", m.metadata.domain>>,
     <<"**Purpose:**", m.prd.purpose>>,
     <<"## Scope", m.prd.scope>>,
     <<"## Context", m.prd.context_problem>> >>

buildGlobalRulesSection(m) ==
  << <<"# Global Rules">>,
     <<"1. Always stay within your defined scope and purpose.">>,
     <<"2. Only use tools that are explicitly allowed for your current state.">>,
     <<"3. Respect data classification and privacy requirements.">>,
     <<"4. Risk level:", m.metadata.risk_level>>,
     <<"5. Data classification:", m.metadata.data_classification>> >>
    \o (IF Len(m.memory.pii_flags) > 0
        THEN << <<"6. Handle PII data with appropriate care and encryption.">> >>
        ELSE <<>>)

\* `${t.when.value}`: the trigger value as text
ValueText(when) ==
  IF when.type = "tool_result"
  THEN <<when.value[1], ":">> \o when.value[2]
  ELSE when.value

\* the lines one prompt block adds to the state section
BlockLines(block, options) ==
  IF block.role = "instructions" THEN << <<"## Instructions", block.content>> >>
  ELSE IF block.role = "context" THEN << <<"## Context", block.content>> >>
  ELSE IF block.role = "examples" /\ options.include_examples # "false"
       THEN << <<"## Examples", block.content>> >>
  ELSE <<>>

buildStateSection(state, options) ==
  LET blocks == sortedBlocks(state.prompt_blocks)
  IN << <<"# Current State:", state.name>> >>
       \o (IF state.description # "" THEN << <<state.description>> >> ELSE <<>>)
       \o Flatten([i \in 1..Len(blocks) |-> BlockLines(blocks[i], options)])
       \o (IF Len(state.transitions) > 0
           THEN << <<"## Possible Transitions">> >>
                  \o [i \in 1..Len(state.transitions) |->
                        <<"- When", state.transitions[i].when.type>>
                          \o ValueText(state.transitions[i].when)
                          \o <<"go to", state.transitions[i].to_state>>]
           ELSE <<>>)
       \o (IF state.is_terminal THEN << <<"**This is a terminal state.**">> >> ELSE <<>>)

\* the description line of a tool, cut to maxLen characters
DescriptionLine(tool, maxLen) ==
  <<"Description:">>
    \o (IF Len(tool.description) > maxLen
        THEN SubSeq(tool.description, 1, maxLen) \o <<"...">>
        ELSE tool.description)

ToolBlock(tool, maxLen) ==
  << <<"##", tool.name>>, <<"Type:", tool.type>>, DescriptionLine(tool, maxLen) >>
    \o (IF Len(tool.parameters) > 0
        THEN << <<"Parameters:">> >>
               \o [i \in 1..Len(tool.parameters) |->
                     <<"-", tool.parameters[i].name, tool.parameters[i].type>>
                       \o (IF tool.parameters[i].required
                           THEN <<"(required)">> ELSE <<>>)]
        ELSE <<>>)
    \o << <<>> >>

getInternalToolDescription(name) ==
  CASE name = "kb.search" -> "Search the knowledge base."
    [] name = "kb.open" -> "Open a specific document."
    [] name = "notes.write" -> "Write to agent notes."
    [] name = "notes.read" -> "Read from agent notes."
    [] OTHER -> "Unknown internal tool"

buildToolAppendix(m, allowedTools, options) ==
  LET maxLen == IF options.max_tool_description_length # 0
                THEN options.max_tool_description_length ELSE 500
      toolDefs == getToolDefinitions(m, allowedTools)
      order == IF m.serialization_order # <<>> THEN m.serialization_order[1]
               ELSE sortNames([i \in 1..Len(toolDefs) |-> toolDefs[i].name])
      found(name) == FirstIndex([i_ \in 1..Len(toolDefs) |-> toolDefs[i_].name = name])
      sorted == [i \in 1..Len(SelectSeq(order, LAMBDA n : found(n) # 0)) |->
                   toolDefs[found(SelectSeq(order, LAMBDA n : found(n) # 0)[i])]]
      internalTools == SelectSeq(allowedTools, LAMBDA t : t \in Range(InternalTools))
  IN << <<"# Available Tools">>, <<>> >>
       \o Flatten([i \in 1..Len(sorted) |-> ToolBlock(sorted[i], maxLen)])
       \o (IF Len(internalTools) > 0
           THEN << <<"## Internal Tools">> >>
                  \o [i \in 1..Len(internalTools) |->
                        <<"-", internalTools[i],
                          getInternalToolDescription(internalTools[i])>>]
           ELSE <<>>)

\* the section rendered from the hints array once hints.sort has ordered it
buildRetrievalHintsSection(hints) ==
  << <<"# Retrieval Hints">>, <<>>, <<"The following resources may be relevant:">> >>
    \o [i \in 1..Len(sortHints(hints)) |->
          <<"-", sortHints(hints)[i].type, sortHints(hints)[i].id>>
            \o (IF sortHints(hints)[i].path # "" THEN <<sortHints(hints)[i].path>>
                ELSE <<>>)]
    \o << <<>>, <<"Use kb.open to retrieve full content when needed.">> >>

\* options.retrieval_hints && options.retrieval_hints.length > 0
hasHints(options) ==
  options.retrieval_hints # <<>> /\ Len(options.retrieval_hints[1]) > 0

\* the system text as the sequence of its sections (joined by a rule line)
buildSystemPrompt(m, state, options) ==
  LET allowedTools == CompilerGetAllowedTools(m, state)
  IN << buildIdentitySection(m), buildGlobalRulesSection(m),
        buildStateSection(state, options) >>
       \o (IF Len(allowedTools) > 0
           THEN <<buildToolAppendix(m, allowedTools, options)>> ELSE <<>>)
       \o (IF hasHints(options)
           THEN <<buildRetrievalHintsSection(options.retrieval_hints[1])>> ELSE <<>>)

\* the options object after a compilePrompt call: buildRetrievalHintsSection
\* sorts the caller's retrieval_hints array in place
optionsAfterCompile(m, stateId, options) ==
  IF HasState(m, stateId) /\ hasHints(options)
  THEN [options EXCEPT !.retrieval_hints = <<sortHints(options.retrieval_hints[1])>>]
  ELSE options

NoCompiled ==
  [kind |-> "raised", system |-> <<>>, tools |-> <<>>, tool_choice_policy |-> "",
   allowed_tool_names |-> <<>>, retrieval_hints |-> <<>>, hints_of |-> "nobody"]

\* compilePrompt: what it returns or that it throws; retrieval_hints is read when
\* the call returns, and hints_of tells whether it is the caller's own array
compilePrompt(m, stateId, options) ==
  IF ~HasState(m, stateId) THEN NoCompiled
  ELSE LET state == getState(m, stateId)
           allowedTools == CompilerGetAllowedTools(m, state)
       IN [kind |-> "returned",
           system |-> buildSystemPrompt(m, state, options),
           tools |-> getToolDefinitions(m, allowedTools),
           tool_choice_policy |-> determineToolChoicePolicy(state, allowedTools),
           allowed_tool_names |-> allowedTools,
           retrieval_hints |->
             IF options.retrieval_hints # <<>>
             THEN optionsAfterCompile(m, stateId, options).retrieval_hints[1]
             ELSE <<>>,
           hints_of |-> IF options.retrieval_hints # <<>> THEN "caller" ELSE "nobody"]

\* ------------------------------------------------- external collaborators
\* total_tokens a ChatResponse reports
Usages == {1}

TextContent == <<"o","k">>

\* tool-call name lists a backend returns in one turn
ProposedLists ==
  {<<n>> : n \in ProposedNames}
    \cup {<<"symptoms.analyze", "db.write">>}

\* ToolCall records of the turn numbered `turn`; ids are unique per call
MakeCalls(names, turn) ==
  [i \in 1..Len(names) |-> [id |-> 10 * turn + i, name |-> names[i]]]

\* ChatResponse values the backend may produce at its `turn`-th invocation
Responses(turn) ==
  [content : {TextContent}, tool_calls : {<<>>},
   finish_reason : {"stop", "length"}, total_tokens : Usages]
  \cup
  [content : {<<>>}, tool_calls : {MakeCalls(l, turn) : l \in ProposedLists},
   finish_reason : {"tool_calls"}, total_tokens : Usages]

\* ToolResult values of ToolExecutor.execute; output is the JSON text of result.output
ExecutorResults ==
  { [success |-> TRUE, output |-> <<"o","k">>],
    [success |-> FALSE, output |-> <<"n","u","l","l">>] }

FailureResult == [success |-> FALSE, output |-> <<"n","u","l","l">>]

\* ------------------------------------------------------------------ state
VARIABLES
  manifest,            \* config.manifest
  options,             \* AgentRuntimeOptions after the merge with DEFAULT_OPTIONS
  supportsToolChoice,  \* config.modelProvider.supportsToolChoice
  pc,                  \* position of the runtime: new, idle, loop, awaitModel,
                       \* tools, save, done, failed
  calls,               \* processMessage calls started
  currentStateId,      \* StateMachine.currentStateId
  sessionState,        \* AgentRuntime.sessionState (in memory)
  store,               \* MemoryStore: <<>> or <<persisted SessionState>>
  ltm,                 \* MemoryStore long-term memory: keys written in 'notes'
  currentRun,          \* AgentRuntime.currentRun
  userMessage,         \* argument of the processMessage call in progress
  iteration,           \* local `iteration`
  stateIteration,      \* local `stateIteration`
  finalResponse,       \* local `finalResponse`: <<>> or <<message>>
  stateEnteredAt,      \* local `stateEnteredAt`
  enteredAt,           \* when the session entered its active state, as the
                       \* wall clock showed it (the runtime keeps no such
                       \* field); the stay in the initial state is counted from
                       \* the first processMessage call at the latest
  response,            \* ChatResponse being handled while tools execute
  toolIdx,             \* next tool call of executeTools
  toolResults,         \* `results` of executeTools
  modelCalls,          \* modelProvider.chat invocations of the call in progress
  totalModelCalls,     \* modelProvider.chat invocations since construction
  executed,            \* tool calls run in this call: [name, state, via]
  lastEval,            \* <<>> or <<[context, result]>> of the evaluateTransitions
                       \* call made by the step just taken
  histBase,            \* Len(history) when the call in progress started
  runSink,             \* Run records persisted by the runtime
  outcome,             \* what the latest processMessage call returned or raised
  cancel,              \* the caller's request to cancel the call in progress:
                       \* <<>> or <<the Steps recorded when it was made>>
  gate,                \* a caller of PolicyGate: the arguments it passed and what
                       \* validate and filter returned for them
  compiler,            \* a caller of compilePrompt: its arguments (the options
                       \* object as it is now and as the caller built it) and
                       \* the result of each call made with them
  machine,             \* a StateMachine instance used on its own: its
                       \* currentStateId and the outcome of the latest call
  db,                  \* DatabaseMemoryStore for one session id: the Postgres
                       \* row, the Redis entry, the setSessionState calls in
                       \* progress and what the latest getSessionState returned
  sent,                \* `messages` of the latest modelProvider.chat request
  fleet                \* AgentRuntime instances of different sessions over one
                       \* MemoryStore: each runtime's fields, the store's
                       \* session states and long-term memory, and what each
                       \* session's backend answers

vars == <<manifest, options, supportsToolChoice, pc, calls, currentStateId,
          sessionState, store, ltm, currentRun, userMessage, iteration,
          stateIteration, finalResponse, response, toolIdx, toolResults,
          modelCalls, totalModelCalls, executed, lastEval, histBase, runSink,
          outcome, cancel, gate, compiler, machine, now, fleet, stateEnteredAt,
          enteredAt, sent, db>>

\* state of the callers that use a component on its own, without a runtime
componentVars == <<gate, compiler, machine, now, fleet, db>>

\* what the steps of a processMessage call leave alone (the request of the
\* latest model call is replaced at the next one only)
configVars ==
  <<manifest, options, supportsToolChoice, runSink, cancel, componentVars, sent>>

\* everything an AgentRuntime owns besides the manifest
runtimeVars == <<options, supportsToolChoice, pc, calls, currentStateId,
                 sessionState, store, ltm, currentRun, userMessage, iteration,
                 stateIteration, finalResponse, response, toolIdx, toolResults,
                 modelCalls, totalModelCalls, executed, lastEval, histBase,
                 runSink, outcome, cancel, stateEnteredAt, enteredAt, sent>>

\* the entry times of the active state
clockVars == <<stateEnteredAt, enteredAt>>

NoRun == [status |-> "none", steps |-> <<>>, totalTokens |-> 0, error |-> <<>>]
NoOutcome == [kind |-> "none", message |-> <<>>, run |-> NoRun, state |-> "",
              isTerminal |-> FALSE, error |-> <<>>]
NoResponse == [content |-> <<>>, tool_calls |-> <<>>, finish_reason |-> "stop",
               total_tokens |-> 0]

DEFAULT_OPTIONS ==
  [maxIterationsPerState |-> 10, maxTotalIterations |-> 50, enablePolicyGate |-> TRUE]

\* the options explored; enablePolicyGate stays at its default
OptionSets ==
  [maxIterationsPerState : 1..MaxPerStateOpt,
   maxTotalIterations : 1..MaxTotalOpt,
   enablePolicyGate : {TRUE}]

NoGate == [stateId |-> "", toolCalls |-> <<>>, validation |-> <<>>, filtered |-> <<>>]

NoCompiler == [stateId |-> "", options |-> <<>>, given |-> <<>>, results |-> <<>>]

NoMachine == [constructed |-> FALSE, currentStateId |-> "", last |-> <<>>]

NoFleet == [runtimes |-> <<>>, store |-> <<>>, notes |-> <<>>, scripts |-> <<>>]

NoDb == [postgres |-> <<>>, redis |-> <<>>, writers |-> <<>>, got |-> <<>>]

\* no component is in use on its own
ComponentsIdle ==
  /\ gate = NoGate
  /\ compiler = NoCompiler
  /\ machine = NoMachine
  /\ now = 0
  /\ fleet = NoFleet
  /\ db = NoDb

\* a runtime just constructed, before initialize(); the MemoryStore is not its own
RuntimeNew ==
  /\ pc = "new"
  /\ calls = 0
  /\ currentStateId = manifest.initial_state
  /\ sessionState = [currentState |-> "", history |-> <<>>]
  /\ ltm = {}
  /\ currentRun = NoRun
  /\ userMessage = <<>>
  /\ iteration = 0
  /\ stateIteration = 0
  /\ finalResponse = <<>>
  /\ response = NoResponse
  /\ toolIdx = 0
  /\ toolResults = <<>>
  /\ modelCalls = 0
  /\ totalModelCalls = 0
  /\ executed = <<>>
  /\ lastEval = <<>>
  /\ histBase = 0
  /\ runSink = <<>>
  /\ outcome = NoOutcome
  /\ cancel = <<>>
  /\ stateEnteredAt = 0
  /\ enteredAt = 0
  /\ sent = <<>>

\* new AgentRuntime(config, options): new StateMachine(manifest), new PolicyGate(manifest)
Init ==
  /\ manifest \in Manifests
  /\ options \in OptionSets
  /\ supportsToolChoice \in BOOLEAN
  /\ RuntimeNew
  /\ store = <<>>
  /\ ComponentsIdle

\* ---------------------------------------------------------- AgentRuntime
isInternalTool(name) == name \in Range(InternalTools)

UserTurn(content) ==
  [role |-> "user", content |-> content, tool_calls |-> <<>>, tool_call_id |-> 0]
AssistantTurn(content, toolCalls) ==
  [role |-> "assistant", content |-> content, tool_calls |-> toolCalls, tool_call_id |-> 0]
ToolTurn(content, id) ==
  [role |-> "tool", content |-> content, tool_calls |-> <<>>, tool_call_id |-> id]

\* compilePrompt called without options: options = {}
NoOptions ==
  [include_examples |-> "undefined", max_tool_description_length |-> 0,
   retrieval_hints |-> <<>>]

\* const maxHistory = 20
maxHistory == 20

\* variant that keeps the first maxHistory entries instead of the last
historyWindowFromStart(history) ==
  SubSeq(history, 1, IF Len(history) < maxHistory THEN Len(history) ELSE maxHistory)

\* history.slice(-maxHistory)
historyWindow(history) ==
  IF Len(history) <= maxHistory THEN history
  ELSE SubSeq(history, Len(history) - maxHistory + 1, Len(history))

\* buildMessages(compiled): the system prompt, then the window of the history
buildMessages(compiled, history) ==
  << [role |-> "system", content |-> compiled.system, tool_calls |-> <<>>,
      tool_call_id |-> 0] >>
    \o historyWindow(history)

\* variant of the loop condition that admits one more iteration
whileConditionOffByOne == iteration <= options.maxTotalIterations

\* while (iteration < this.options.maxTotalIterations)
whileCondition == iteration < options.maxTotalIterations

\* this.options.enablePolicyGate && !this.config.modelProvider.supportsToolChoice
gateApplies == options.enablePolicyGate /\ ~supportsToolChoice

\* the two history entries pushed when the gate blocks a turn
correctiveTurns(toolCalls, blockedTools) ==
  << AssistantTurn(<<>>, toolCalls),
     UserTurn(generateConstraintMessage(manifest, currentStateId, blockedTools)) >>

\* tool_call_id of a result: toolCalls.find((tc) => tc.name === toolName)?.id
ResultCallId(toolCalls, toolName) ==
  toolCalls[FirstIndex([i_ \in 1..Len(toolCalls) |-> toolCalls[i_].name = toolName])].id

\* variant that pushes the tool results before the assistant tool-call turn
toolTurnsResultsFirst(resp, results) ==
  [i \in 1..Len(results) |->
     ToolTurn(results[i].result.output,
              ResultCallId(resp.tool_calls, results[i].toolName))]
    \o <<AssistantTurn(resp.content, resp.tool_calls)>>

\* the history entries pushed after executeTools: the assistant tool-call turn,
\* then one tool turn per result
toolTurns(resp, results) ==
  <<AssistantTurn(resp.content, resp.tool_calls)>>
    \o [i \in 1..Len(results) |->
          ToolTurn(results[i].result.output,
                   ResultCallId(resp.tool_calls, results[i].toolName))]

\* the catch block of processMessage: mark the run failed and re-raise
Raise(run, message) ==
  /\ currentRun' = [run EXCEPT !.status = "failed", !.error = message]
  /\ pc' = "failed"
  /\ outcome' = [NoOutcome EXCEPT !.kind = "raised", !.error = message]

\* initialize(): restore the session from the store or create and persist it
Initialize ==
  /\ pc = "new"
  /\ IF store # <<>>
     THEN /\ sessionState' = store[1]
          /\ currentStateId' = store[1].currentState
          /\ UNCHANGED store
     ELSE /\ sessionState' = [currentState |-> currentStateId, history |-> <<>>]
          /\ store' = <<sessionState'>>
          /\ UNCHANGED currentStateId
  /\ pc' = "idle"
  /\ enteredAt' = now
  /\ UNCHANGED <<configVars, calls, ltm, currentRun, userMessage, iteration,
                 stateIteration, finalResponse, response, toolIdx, toolResults,
                 modelCalls, totalModelCalls, executed, lastEval, histBase, outcome,
                 stateEnteredAt>>

\* processMessage up to the loop: new Run, user message pushed, counters reset
ProcessMessage(message) ==
  /\ pc \in {"idle", "done", "failed"}
  /\ calls < MaxCalls
  /\ calls = 0 \/ totalModelCalls + options.maxTotalIterations <= MaxModelCalls
  /\ calls' = calls + 1
  /\ currentRun' = [NoRun EXCEPT !.status = "running"]
  /\ userMessage' = message
  /\ histBase' = Len(sessionState.history)
  /\ sessionState' = [sessionState EXCEPT !.history = Append(@, UserTurn(message))]
  /\ iteration' = 0
  /\ stateIteration' = 0
  /\ stateEnteredAt' = now
  /\ enteredAt' = IF calls = 0 THEN now ELSE enteredAt
  /\ finalResponse' = <<>>
  /\ modelCalls' = 0
  /\ executed' = <<>>
  /\ lastEval' = <<>>
  /\ outcome' = NoOutcome
  /\ cancel' = <<>>
  /\ pc' = "loop"
  /\ UNCHANGED <<manifest, options, supportsToolChoice, runSink, componentVars,
                 currentStateId, store, ltm, response, toolIdx, toolResults,
                 totalModelCalls, sent>>

\* top of the while loop up to the model call: bounds, fallback, compilePrompt
LoopHead ==
  /\ pc = "loop"
  /\ lastEval' = <<>>
  /\ IF whileCondition
     THEN /\ iteration' = iteration + 1
          /\ IF stateIteration + 1 > options.maxIterationsPerState
             THEN IF manifest.fallback_state # NoFallback
                  THEN /\ currentStateId' = manifest.fallback_state
                       /\ stateIteration' = 0
                       /\ stateEnteredAt' = now
                       /\ enteredAt' = now
                       /\ pc' = "loop"
                       /\ UNCHANGED <<currentRun, outcome, sent>>
                  ELSE /\ stateIteration' = stateIteration + 1
                       /\ Raise(currentRun, <<"Max iterations reached for state">>)
                       /\ UNCHANGED <<currentStateId, clockVars, sent>>
             ELSE /\ stateIteration' = stateIteration + 1
                  /\ UNCHANGED <<currentStateId, clockVars>>
                  /\ IF HasState(manifest, currentStateId)
                     THEN /\ pc' = "awaitModel"
                          /\ sent' = buildMessages(
                                        compilePrompt(Authored(manifest),
                                                      currentStateId, NoOptions),
                                        sessionState.history)
                          /\ UNCHANGED <<currentRun, outcome>>
                     ELSE /\ Raise(currentRun, <<"State not found in manifest">>)
                          /\ UNCHANGED sent
     ELSE \* loop condition false: finalize the run
          /\ currentRun' = [currentRun EXCEPT !.status = "completed"]
          /\ pc' = "save"
          /\ UNCHANGED <<iteration, stateIteration, currentStateId, outcome,
                         clockVars, sent>>
  /\ UNCHANGED <<manifest, options, supportsToolChoice, runSink, cancel,
                 componentVars, calls, sessionState, store, ltm, userMessage,
                 finalResponse, response, toolIdx, toolResults, modelCalls,
                 totalModelCalls, executed, histBase>>

\* variant that numbers the Steps by the per-state counter
StepNumberPerState == stateIteration

\* stepNumber: iteration
StepNumber == iteration

\* ChatResponse values of a backend that calls `symptoms.analyze` twice in one
\* turn
RepeatResponses(turn) ==
  [content : {TextContent}, tool_calls : {<<>>},
   finish_reason : {"stop"}, total_tokens : Usages]
  \cup
  [content : {<<>>},
   tool_calls : {MakeCalls(<<"symptoms.analyze", "symptoms.analyze">>, turn)},
   finish_reason : {"tool_calls"}, total_tokens : Usages]

\* what modelProvider.chat may return at its `turn`-th invocation
BackendResponses(turn) ==
  IF manifest \in {RepeatManifest(o) : o \in Outcomes}
  THEN RepeatResponses(turn)
  ELSE Responses(turn)

\* if (response.finish_reason === 'stop' && toolCalls.length === 0) break
naturalStop(resp) == resp.finish_reason = "stop" /\ Len(resp.tool_calls) = 0

\* variant that leaves the loop in a terminal state without a final answer
terminalStopWithoutAnswer(m, stateId, final) == getState(m, stateId).is_terminal

\* if (this.stateMachine.isTerminal() && finalResponse) break
terminalStop(m, stateId, final) ==
  getState(m, stateId).is_terminal /\ final # <<>>

\* rest of one iteration once the turn's history entries are pushed: record the
\* Step, evaluate transitions, decide whether the loop stops
FinishIteration(resp, results, run, history, final) ==
  LET toolCalls == resp.tool_calls
      step == [stepNumber |-> StepNumber,
               state |-> currentStateId,
               input |-> IF iteration = 1 THEN userMessage ELSE <<>>,
               output |-> resp.content,
               toolCalls |-> toolCalls,
               toolResults |-> [i \in 1..Len(results) |-> results[i].result],
               tokens |-> resp.total_tokens]
      run2 == [run EXCEPT !.steps = Append(@, step)]
      context == [lastUserMessage |-> userMessage,
                  lastToolResult |-> results,
                  metadata |-> <<>>,
                  iteration |-> stateIteration,
                  toolCallsCount |-> Len(toolCalls),
                  stateEnteredAt |-> stateEnteredAt]
      transition == evaluateTransitions(manifest, currentStateId, context)
      stop == naturalStop(resp)
  IN /\ lastEval' = <<[context |-> context, result |-> transition]>>
     /\ currentStateId' = transition.toState
     /\ stateIteration' = IF transition.transitioned THEN 0 ELSE stateIteration
     /\ stateEnteredAt' = IF transition.transitioned THEN now ELSE stateEnteredAt
     /\ enteredAt' = IF transition.transitioned THEN now ELSE enteredAt
     /\ sessionState' = [currentState |-> IF transition.transitioned
                                           THEN transition.toState
                                           ELSE sessionState.currentState,
                         history |-> history]
     /\ finalResponse' = final
     /\ IF stop
        THEN /\ currentRun' = [run2 EXCEPT !.status = "completed"]
             /\ pc' = "save"
             /\ UNCHANGED outcome
        ELSE IF ~HasState(manifest, transition.toState)
        THEN Raise(run2, <<"Current state not found">>)
        ELSE IF terminalStop(manifest, transition.toState, final)
        THEN /\ currentRun' = [run2 EXCEPT !.status = "completed"]
             /\ pc' = "save"
             /\ UNCHANGED outcome
        ELSE /\ currentRun' = run2
             /\ pc' = "loop"
             /\ UNCHANGED outcome

\* the model backend answers: usage, policy gate, and the no-tool-call branch
ModelReturns ==
  /\ pc = "awaitModel"
  /\ \E resp \in BackendResponses(totalModelCalls + 1) :
       LET run == [currentRun EXCEPT !.totalTokens = @ + resp.total_tokens]
           toolCalls == resp.tool_calls
           gateResult == validate(manifest, currentStateId, toolCalls)
       IN /\ modelCalls' = modelCalls + 1
          /\ totalModelCalls' = totalModelCalls + 1
          /\ IF Len(toolCalls) > 0
             THEN IF gateApplies /\ ~gateResult.allowed
                  THEN \* corrective turn, then `continue`
                       /\ sessionState' =
                            [sessionState EXCEPT !.history =
                               @ \o correctiveTurns(toolCalls, gateResult.blockedTools)]
                       /\ currentRun' = run
                       /\ pc' = "loop"
                       /\ lastEval' = <<>>
                       /\ UNCHANGED <<toolIdx, toolResults, currentStateId,
                                      stateIteration, finalResponse, outcome,
                                      clockVars>>
                  ELSE \* executeTools(toolCalls) starts
                       /\ toolIdx' = 1
                       /\ toolResults' = <<>>
                       /\ currentRun' = run
                       /\ pc' = "tools"
                       /\ lastEval' = <<>>
                       /\ UNCHANGED <<sessionState, currentStateId, stateIteration,
                                      finalResponse, outcome, clockVars>>
             ELSE /\ FinishIteration(resp, <<>>, run,
                       Append(sessionState.history, AssistantTurn(resp.content, <<>>)),
                       <<AssistantTurn(resp.content, <<>>)>>)
                  /\ UNCHANGED <<toolIdx, toolResults>>
          /\ response' = resp
  /\ UNCHANGED <<configVars, calls, store, ltm, userMessage, iteration, executed,
                 histBase>>

\* the model backend fails (BackendError)
ModelThrows ==
  /\ pc = "awaitModel"
  /\ modelCalls' = modelCalls + 1
  /\ totalModelCalls' = totalModelCalls + 1
  /\ Raise(currentRun, <<"backend error">>)
  /\ lastEval' = <<>>
  /\ UNCHANGED <<configVars, calls, currentStateId, sessionState, store, ltm,
                 userMessage, iteration, stateIteration, finalResponse, response,
                 toolIdx, toolResults, executed, histBase, clockVars>>

\* executeInternalTool: outcomes of one reserved tool; the memory-store call of
\* the notes tools either returns or throws, and a throw is caught
InternalResults(name) ==
  CASE name = "kb.search" -> {[success |-> TRUE, output |-> <<"k","b">>]}
    [] name = "kb.open" -> {[success |-> TRUE, output |-> <<"k","b">>]}
    [] name = "notes.write" ->
         {[success |-> TRUE, output |-> <<"w","r","i","t","t","e","n">>], FailureResult}
    [] name = "notes.read" ->
         {[success |-> TRUE, output |-> <<"c","o","n","t","e","n","t">>], FailureResult}
    [] OTHER -> {FailureResult}

Executed(name, via) == [name |-> name, state |-> currentStateId, via |-> via]

\* variant that finds a definition for every tool name
toolDefFoundAlways(m, name) == TRUE

\* this.config.manifest.tools.tools.find((t) => t.name === call.name)
toolDefFound(m, name) == name \in Range(m.tools)

\* variant that walks the tool calls from the last to the first
currentCallFromEnd == response.tool_calls[Len(response.tool_calls) + 1 - toolIdx]

\* for (const call of toolCalls): the call the loop of executeTools is at
currentCall == response.tool_calls[toolIdx]

\* executeTools: one pass of its for loop, for a call that produces a result
ExecTool ==
  /\ pc = "tools"
  /\ toolIdx <= Len(response.tool_calls)
  /\ LET call == currentCall
     IN IF isInternalTool(call.name)
        THEN \E result \in InternalResults(call.name) :
               /\ toolResults' = Append(toolResults,
                                        [toolName |-> call.name, result |-> result])
               /\ executed' = Append(executed, Executed(call.name, "internal"))
               /\ ltm' = IF call.name = "notes.write" /\ result.success
                         THEN ltm \cup {"path"} ELSE ltm
        ELSE IF ~toolDefFound(manifest, call.name)
        THEN /\ toolResults' = Append(toolResults,
                                      [toolName |-> call.name, result |-> FailureResult])
             /\ UNCHANGED <<executed, ltm>>
        ELSE \E result \in ExecutorResults :
               /\ toolResults' = Append(toolResults,
                                        [toolName |-> call.name, result |-> result])
               /\ executed' = Append(executed, Executed(call.name, "executor"))
               /\ UNCHANGED ltm
  /\ toolIdx' = toolIdx + 1
  /\ lastEval' = <<>>
  /\ UNCHANGED <<configVars, pc, calls, currentStateId, sessionState, store,
                 currentRun, userMessage, iteration, stateIteration, finalResponse,
                 response, modelCalls, totalModelCalls, histBase, outcome, clockVars>>

\* toolExecutor.execute throws for a registered tool
ExecutorThrows ==
  /\ pc = "tools"
  /\ toolIdx <= Len(response.tool_calls)
  /\ LET call == currentCall
     IN /\ ~isInternalTool(call.name)
        /\ toolDefFound(manifest, call.name)
        /\ executed' = Append(executed, Executed(call.name, "executor"))
  /\ Raise(currentRun, <<"tool executor error">>)
  /\ lastEval' = <<>>
  /\ UNCHANGED <<configVars, calls, currentStateId, sessionState, store, ltm,
                 userMessage, iteration, stateIteration, finalResponse, response,
                 toolIdx, toolResults, modelCalls, totalModelCalls, histBase,
                 clockVars>>

\* executeTools returned: push the assistant turn and the tool results, finish
ToolsDone ==
  /\ pc = "tools"
  /\ toolIdx > Len(response.tool_calls)
  /\ FinishIteration(response, toolResults, currentRun,
                     sessionState.history \o toolTurns(response, toolResults),
                     finalResponse)
  /\ UNCHANGED <<configVars, calls, store, ltm, userMessage, iteration, response,
                 toolIdx, toolResults, modelCalls, totalModelCalls, executed,
                 histBase>>

\* after the loop: setSessionState, then the return statement
Save ==
  /\ pc = "save"
  /\ store' = <<sessionState>>
  /\ IF HasState(manifest, currentStateId)
     THEN /\ pc' = "done"
          /\ outcome' = [kind |-> "returned",
                         run |-> currentRun,
                         message |-> IF finalResponse = <<>> THEN <<>>
                                     ELSE finalResponse[1].content,
                         state |-> currentStateId,
                         isTerminal |-> getState(manifest, currentStateId).is_terminal,
                         error |-> <<>>]
          /\ UNCHANGED currentRun
     ELSE Raise(currentRun, <<"Current state not found">>)
  /\ lastEval' = <<>>
  /\ UNCHANGED <<configVars, calls, currentStateId, sessionState, ltm, userMessage,
                 iteration, stateIteration, finalResponse, response, toolIdx,
                 toolResults, modelCalls, totalModelCalls, executed, histBase,
                 clockVars>>

Next ==
  \/ Initialize
  \/ \E message \in UserMessages : ProcessMessage(message)
  \/ LoopHead
  \/ ModelReturns
  \/ ModelThrows
  \/ ExecTool
  \/ ExecutorThrows
  \/ ToolsDone
  \/ Save

Spec == Init /\ [][Next]_vars

\* ------------------------------------------------ a caller that cancels
\* the caller asks to cancel between two iterations; processMessage takes no
\* cancellation signal, so nothing in the runtime reads the request
Cancel ==
  /\ pc = "loop"
  /\ cancel = <<>>
  /\ cancel' = <<currentRun.steps>>
  /\ UNCHANGED <<manifest, options, supportsToolChoice, pc, calls, currentStateId,
                 sessionState, store, ltm, currentRun, userMessage, iteration,
                 stateIteration, finalResponse, response, toolIdx, toolResults,
                 modelCalls, totalModelCalls, executed, lastEval, histBase,
                 runSink, outcome, componentVars, clockVars, sent>>

CancelNext == Next \/ Cancel

CancelSpec == Init /\ [][CancelNext]_vars

\* ------------------------------------------- a runtime and the wall clock
\* `waiting` times out after 1 ms
ClockManifest ==
  [states |-> << StateDef("waiting", <<"symptoms.analyze">>,
                          <<Timeout(<<"1">>, "expired", 0)>>, FALSE),
                 StateDef("expired", <<>>, <<>>, TRUE) >>,
   initial_state |-> "waiting",
   fallback_state |-> NoFallback,
   global_allowed_tools |-> <<>>,
   tools |-> Registry]

ClockInit ==
  /\ manifest = ClockManifest
  /\ options \in OptionSets
  /\ supportsToolChoice \in BOOLEAN
  /\ RuntimeNew
  /\ store = <<>>
  /\ ComponentsIdle

\* a millisecond passes while the runtime is anywhere
ClockTick ==
  /\ now < MaxNow
  /\ now' = now + 1
  /\ UNCHANGED <<manifest, runtimeVars, gate, compiler, machine, fleet, db>>

ClockNext == Next \/ ClockTick

ClockSpec == ClockInit /\ [][ClockNext]_vars

\* ------------------------------ a session restored with a long history
\* the n entries of a stored history: user message, assistant turn with one
\* tool call, tool result, and so on, every call with an id of its own
StoredHistory(n) ==
  [i \in 1..n |->
     IF i % 3 = 1 THEN UserTurn(Ok)
     ELSE IF i % 3 = 2
          THEN AssistantTurn(<<>>, MakeCalls(<<"symptoms.analyze">>, 10 + i))
          ELSE ToolTurn(<<"o", "k">>, 10 * (10 + i - 1) + 1)]

\* the store holds a session left in the initial state, its history just
\* shorter or longer than the window of buildMessages
WindowInit ==
  /\ manifest = TriageManifest
  /\ options \in OptionSets
  /\ supportsToolChoice = FALSE
  /\ RuntimeNew
  /\ ComponentsIdle
  /\ \E n \in {maxHistory - 2, MaxStored} :
       store = <<[currentState |-> manifest.initial_state,
                  history |-> StoredHistory(n)]>>

WindowSpec == WindowInit /\ [][Next]_vars

\* ------------------------------ a backend that repeats a tool in one turn
RepeatInit ==
  /\ manifest = RepeatManifest(SuccessPattern)
  /\ options \in OptionSets
  /\ supportsToolChoice \in BOOLEAN
  /\ RuntimeNew
  /\ store = <<>>
  /\ ComponentsIdle

RepeatSpec == RepeatInit /\ [][Next]_vars

\* ------------------------------------------ PolicyGate called on its own
\* a manifest is loaded and no runtime is running on it
ComponentInit ==
  /\ options = DEFAULT_OPTIONS
  /\ supportsToolChoice = FALSE
  /\ RuntimeNew
  /\ store = <<>>

\* state ids a caller may pass: every state of the manifest and an unknown one
StateIds(m) == {m.states[i].id : i \in 1..Len(m.states)} \cup {"nowhere"}

\* tool names a caller may propose
GateNames == {"symptoms.analyze", "db.write", "ghost.tool", "notes.write"}

GateCallLists ==
  {MakeCalls(names, 1) : names \in UNION {[1..n -> GateNames] : n \in 0..MaxGateCalls}}

GateInit == manifest \in Manifests /\ ComponentInit /\ ComponentsIdle

\* policyGate.validate(stateId, toolCalls); the gate keeps nothing between
\* calls, so one validate and one filter on the same arguments are followed
GateValidate ==
  /\ gate = NoGate
  /\ \E stateId \in StateIds(manifest), toolCalls \in GateCallLists :
       gate' = [stateId |-> stateId, toolCalls |-> toolCalls,
                validation |-> <<validate(manifest, stateId, toolCalls)>>,
                filtered |-> <<>>]
  /\ UNCHANGED <<manifest, runtimeVars, compiler, machine, now, fleet, db>>

\* policyGate.filter(stateId, toolCalls) on the arguments just validated
GateFilter ==
  /\ gate.validation # <<>>
  /\ gate.filtered = <<>>
  /\ gate' = [gate EXCEPT !.filtered = <<filter(manifest, gate.stateId, gate.toolCalls)>>]
  /\ UNCHANGED <<manifest, runtimeVars, compiler, machine, now, fleet, db>>

GateNext == GateValidate \/ GateFilter

GateSpec == GateInit /\ [][GateNext]_vars

\* ---------------------------------------- compilePrompt called on its own
\* compilePrompt calls made with one set of arguments
MaxCompiles == 2
\* longest retrieval_hints array
MaxHints == 2

Hints ==
  {RetrievalHint("document", "a", 1), RetrievalHint("chunk", "b", 2),
   RetrievalHint("memory", "c", 2)}

\* CompilerOptions values: a field left out is "undefined", 0 or <<>>
CompilerOptionSets ==
  [include_examples : {"undefined", "true", "false"},
   max_tool_description_length : {0, 3},
   retrieval_hints :
     {<<>>} \cup {<<l>> : l \in UNION {[1..n -> Hints] : n \in 0..MaxHints}}]

CompilerInit ==
  /\ manifest \in CompilerManifests
  /\ ComponentInit
  /\ gate = NoGate
  /\ machine = NoMachine
  /\ now = 0
  /\ fleet = NoFleet
  /\ db = NoDb
  /\ compiler \in {[stateId |-> s, options |-> o, given |-> o, results |-> <<>>] :
                     s \in StateIds(manifest), o \in CompilerOptionSets}

\* compilePrompt(manifest, stateId, options) with the caller's options object;
\* a result that returned the caller's retrieval_hints array shows its content
Compile ==
  /\ Len(compiler.results) < MaxCompiles
  /\ LET result == compilePrompt(manifest, compiler.stateId, compiler.options)
         after == optionsAfterCompile(manifest, compiler.stateId, compiler.options)
         earlier == compiler.results
     IN compiler' =
          [compiler EXCEPT
             !.options = after,
             !.results =
               Append([i \in 1..Len(earlier) |->
                         IF earlier[i].hints_of = "caller"
                         THEN [earlier[i] EXCEPT
                                 !.retrieval_hints = after.retrieval_hints[1]]
                         ELSE earlier[i]],
                      result)]
  /\ UNCHANGED <<manifest, runtimeVars, gate, machine, now, fleet, db>>

CompilerNext == Compile

CompilerSpec == CompilerInit /\ [][CompilerNext]_vars

\* ---------------------------------------- StateMachine used on its own
NoLast ==
  [op |-> "", kind |-> "", before |-> "", arg |-> "", context |-> <<>>,
   result |-> <<>>]

\* one tool result of the latest turn, or none
MachineToolResults ==
  {<<>>} \cup {<<[toolName |-> "symptoms.analyze", result |-> r]>> : r \in ExecutorResults}

\* the tool results of a turn with up to two calls, the same tool called twice
\* included
RepeatedToolResults ==
  LET one == [toolName : {"symptoms.analyze", "db.write"}, result : ExecutorResults]
  IN {<<>>} \cup {<<r>> : r \in one} \cup {<<r, q>> : r \in one, q \in one}

\* values of the metadata entry `score`
ScoreValues ==
  {Null, Bool(TRUE), Bool(FALSE), Num(0), Num(2), Str(<<>>), Str(<<"x">>),
   Str(<<"1">>)}

\* session metadata: empty, or the one entry `score`
Metadatas == {<<>>} \cup {<<[key |-> <<"score">>, value |-> v]>> : v \in ScoreValues}

\* TransitionContext values a caller may pass; the state was entered at or
\* before now. The metadata varies where a condition reads it, the message and
\* the tool results where the other triggers read them
Contexts ==
  IF manifest \in ConditionManifests
  THEN [lastUserMessage : {Ok},
        lastToolResult : {<<>>},
        metadata : Metadatas,
        iteration : {1},
        toolCallsCount : {0},
        stateEnteredAt : {now}]
  ELSE IF manifest \in RepeatManifests
  THEN [lastUserMessage : {Ok},
        lastToolResult : RepeatedToolResults,
        metadata : {<<>>},
        iteration : {1},
        toolCallsCount : {0},
        stateEnteredAt : {now}]
  ELSE [lastUserMessage : UserMessages,
        lastToolResult : MachineToolResults,
        metadata : {<<>>},
        iteration : {1},
        toolCallsCount : {0},
        stateEnteredAt : 0..now]

\* variant of validateFSMIntegrity that does not look at the fallback state
validateFSMIntegrityInitialOnly(m) ==
  LET stateIds == {m.states[i].id : i \in 1..Len(m.states)}
      toolNames == {m.tool_defs[i].name : i \in 1..Len(m.tool_defs)}
  IN (IF m.initial_state \notin stateIds
      THEN {<<"initial state not found", m.initial_state>>} ELSE {})
     \cup UNION {{<<"transition to unknown state", m.states[i].id,
                    m.states[i].transitions[j].to_state>> :
                    j \in {k \in 1..Len(m.states[i].transitions) :
                             m.states[i].transitions[k].to_state \notin stateIds}} :
                 i \in 1..Len(m.states)}

\* validateFSMIntegrity(manifest): the errors found, none when every state and
\* tool reference resolves
validateFSMIntegrity(m) ==
  LET stateIds == {m.states[i].id : i \in 1..Len(m.states)}
      toolNames == {m.tool_defs[i].name : i \in 1..Len(m.tool_defs)}
      known(name) == name \in toolNames \/ isInternalTool(name)
  IN (IF m.initial_state \notin stateIds
      THEN {<<"initial state not found", m.initial_state>>} ELSE {})
     \cup (IF m.fallback_state # NoFallback /\ m.fallback_state \notin stateIds
           THEN {<<"fallback state not found", m.fallback_state>>} ELSE {})
     \cup UNION {{<<"transition to unknown state", m.states[i].id,
                    m.states[i].transitions[j].to_state>> :
                    j \in {k \in 1..Len(m.states[i].transitions) :
                             m.states[i].transitions[k].to_state \notin stateIds}} :
                 i \in 1..Len(m.states)}
     \cup UNION {{<<"unknown tool", m.states[i].id, m.states[i].allowed_tools[j]>> :
                    j \in {k \in 1..Len(m.states[i].allowed_tools) :
                             ~known(m.states[i].allowed_tools[k])}} :
                 i \in 1..Len(m.states)}
     \cup {<<"global tool not found", m.global_allowed_tools[j]>> :
             j \in {k \in 1..Len(m.global_allowed_tools) :
                      ~known(m.global_allowed_tools[k])}}

MachineInit ==
  /\ manifest \in MachineManifests
  /\ ComponentInit
  /\ ComponentsIdle

machineFrame == <<manifest, runtimeVars, gate, compiler, fleet, db>>

\* new StateMachine(manifest, initialState); "" stands for an omitted argument
NewStateMachine ==
  /\ ~machine.constructed
  /\ \E initialState \in StateIds(manifest) \cup {""} :
       LET start == IF initialState # "" THEN initialState ELSE manifest.initial_state
       IN machine' =
            IF HasState(manifest, start)
            THEN [constructed |-> TRUE, currentStateId |-> start,
                  last |-> <<[NoLast EXCEPT !.op = "new", !.kind = "returned",
                                           !.arg = initialState]>>]
            ELSE [constructed |-> FALSE, currentStateId |-> "",
                  last |-> <<[NoLast EXCEPT !.op = "new", !.kind = "raised",
                                           !.arg = initialState]>>]
  /\ UNCHANGED <<machineFrame, now>>

\* stateMachine.evaluateTransitions(context); the currentState getter throws
\* when the pointer names no state
EvaluateTransitions ==
  /\ machine.constructed
  /\ \E context \in Contexts :
       machine' =
         IF ~HasState(manifest, machine.currentStateId)
         THEN [machine EXCEPT
                 !.last = <<[NoLast EXCEPT !.op = "evaluateTransitions",
                                          !.kind = "raised",
                                          !.before = machine.currentStateId,
                                          !.context = <<context>>]>>]
         ELSE LET result == evaluateTransitions(manifest, machine.currentStateId, context)
              IN [machine EXCEPT
                    !.currentStateId = result.toState,
                    !.last = <<[NoLast EXCEPT !.op = "evaluateTransitions",
                                             !.kind = "returned",
                                             !.before = machine.currentStateId,
                                             !.context = <<context>>,
                                             !.result = <<result>>]>>]
  /\ UNCHANGED <<machineFrame, now>>

\* stateMachine.transitionTo(stateId)
TransitionTo ==
  /\ machine.constructed
  /\ \E stateId \in StateIds(manifest) :
       LET r == transitionTo(manifest, machine.currentStateId, stateId)
       IN machine' =
            [machine EXCEPT
               !.currentStateId = r.currentStateId,
               !.last = <<[NoLast EXCEPT !.op = "transitionTo", !.kind = r.kind,
                                        !.before = machine.currentStateId,
                                        !.arg = stateId]>>]
  /\ UNCHANGED <<machineFrame, now>>

\* stateMachine.goToFallback()
GoToFallback ==
  /\ machine.constructed
  /\ LET r == goToFallback(manifest, machine.currentStateId)
     IN machine' =
          [machine EXCEPT
             !.currentStateId = r.currentStateId,
             !.last = <<[NoLast EXCEPT !.op = "goToFallback", !.kind = "returned",
                                      !.before = machine.currentStateId,
                                      !.arg = IF r.moved THEN "true" ELSE "false"]>>]
  /\ UNCHANGED <<machineFrame, now>>

\* compilePrompt(manifest, stateId) by the owner of the machine, for any state id
CompileState ==
  /\ machine.constructed
  /\ \E stateId \in StateIds(manifest) :
       LET compiled == compilePrompt(manifest, stateId,
                         [include_examples |-> "undefined",
                          max_tool_description_length |-> 0,
                          retrieval_hints |-> <<>>])
       IN machine' =
            [machine EXCEPT
               !.last = <<[NoLast EXCEPT !.op = "compilePrompt",
                                        !.kind = compiled.kind,
                                        !.before = machine.currentStateId,
                                        !.arg = stateId]>>]
  /\ UNCHANGED <<machineFrame, now>>

\* a millisecond passes
Tick ==
  /\ now < MaxNow
  /\ now' = now + 1
  /\ UNCHANGED <<machineFrame, machine>>

MachineNext ==
  \/ NewStateMachine
  \/ EvaluateTransitions
  \/ TransitionTo
  \/ GoToFallback
  \/ CompileState
  \/ Tick

MachineSpec == MachineInit /\ [][MachineNext]_vars

\* ----------------------------------- two sessions over one MemoryStore
\* config.sessionId of the runtimes
Sessions == {"s1", "s2"}

\* the key every notes call of the backends below names (args.path)
NotesPaths == {"p"}

\* ToolCall records with the arguments the notes tools read
WriteCall(id) ==
  [id |-> id, name |-> "notes.write", path |-> "p", content |-> <<"x">>]
ReadCall(id) ==
  [id |-> id, name |-> "notes.read", path |-> "p", content |-> <<>>]

ToolsResponse(toolCalls) ==
  [content |-> <<>>, tool_calls |-> toolCalls, finish_reason |-> "tool_calls",
   total_tokens |-> 1]
TextResponse ==
  [content |-> TextContent, tool_calls |-> <<>>, finish_reason |-> "stop",
   total_tokens |-> 1]

\* what a session's backend answers, call after call: write a note and stop;
\* read the note in two consecutive turns and stop; stop at once
WriterScript == <<ToolsResponse(<<WriteCall(11)>>), TextResponse>>
ReaderScript ==
  <<ToolsResponse(<<ReadCall(11)>>), ToolsResponse(<<ReadCall(21)>>), TextResponse>>
QuietScript == <<TextResponse>>
FleetScripts == {WriterScript, ReaderScript, QuietScript}

\* JSON.stringify({ content }) for a value read from long-term memory
NotesText(value) ==
  <<"c","o","n","t","e","n","t",":">>
    \o (IF value = <<>> THEN <<"n","u","l","l">> ELSE value[1])

\* executeInternalTool when the memory-store call returns: the ToolResult
executeInternalTool(call, notes) ==
  CASE call.name \in {"kb.search", "kb.open"} ->
         [success |-> TRUE, output |-> <<"k","b">>]
    [] call.name = "notes.write" ->
         [success |-> TRUE, output |-> <<"w","r","i","t","t","e","n">>]
    [] call.name = "notes.read" ->
         [success |-> TRUE, output |-> NotesText(notes[call.path])]
    [] OTHER -> FailureResult

\* long-term memory after executeInternalTool: setLongTermMemory('notes', path, content)
notesAfter(call, notes) ==
  IF call.name = "notes.write"
  THEN [notes EXCEPT ![call.path] = <<call.content>>]
  ELSE notes

\* the fields of an AgentRuntime just constructed
NewRuntime(m) ==
  [pc |-> "new", currentStateId |-> m.initial_state,
   sessionState |-> [currentState |-> "", history |-> <<>>],
   currentRun |-> NoRun, iteration |-> 0, stateIteration |-> 0,
   finalResponse |-> <<>>, response |-> NoResponse, toolIdx |-> 0,
   toolResults |-> <<>>, turn |-> 0]

\* the catch block of processMessage for a runtime of the fleet
fleetRaise(rt, message) ==
  [rt EXCEPT !.pc = "failed",
             !.currentRun = [@ EXCEPT !.status = "failed", !.error = message]]

\* top of the while loop up to the model call
fleetLoopHead(m, rt) ==
  IF rt.iteration < options.maxTotalIterations
  THEN LET counted == [rt EXCEPT !.iteration = @ + 1, !.stateIteration = @ + 1]
           fallback == goToFallback(m, rt.currentStateId)
       IN IF counted.stateIteration > options.maxIterationsPerState
          THEN IF fallback.moved
               THEN [counted EXCEPT !.currentStateId = fallback.currentStateId,
                                    !.stateIteration = 0]
               ELSE fleetRaise(counted, <<"Max iterations reached for state">>)
          ELSE IF HasState(m, rt.currentStateId)
               THEN [counted EXCEPT !.pc = "awaitModel"]
               ELSE fleetRaise(counted, <<"State not found in manifest">>)
  ELSE [rt EXCEPT !.pc = "save", !.currentRun = [@ EXCEPT !.status = "completed"]]

\* rest of one iteration: record the Step, evaluate transitions, stop or go on
fleetFinishIteration(m, rt, resp, results, history, final) ==
  LET step == [stepNumber |-> rt.iteration,
               state |-> rt.currentStateId,
               input |-> IF rt.iteration = 1 THEN Ok ELSE <<>>,
               output |-> resp.content,
               toolCalls |-> resp.tool_calls,
               toolResults |-> [i \in 1..Len(results) |-> results[i].result],
               tokens |-> resp.total_tokens]
      context == [lastUserMessage |-> Ok,
                  lastToolResult |-> results,
                  metadata |-> <<>>,
                  iteration |-> rt.stateIteration,
                  toolCallsCount |-> Len(resp.tool_calls),
                  stateEnteredAt |-> now]
      transition == evaluateTransitions(m, rt.currentStateId, context)
      moved ==
        [rt EXCEPT
           !.currentStateId = transition.toState,
           !.stateIteration = IF transition.transitioned THEN 0 ELSE @,
           !.sessionState =
              [currentState |-> IF transition.transitioned
                                THEN transition.toState
                                ELSE rt.sessionState.currentState,
               history |-> history],
           !.finalResponse = final,
           !.currentRun = [@ EXCEPT !.steps = Append(@, step)]]
      completed ==
        [moved EXCEPT !.pc = "save",
                      !.currentRun = [@ EXCEPT !.status = "completed"]]
  IN IF naturalStop(resp) THEN completed
     ELSE IF ~HasState(m, transition.toState)
     THEN fleetRaise(moved, <<"Current state not found">>)
     ELSE IF terminalStop(m, transition.toState, final) THEN completed
     ELSE [moved EXCEPT !.pc = "loop"]

\* the part of an iteration that follows the model's answer, up to executeTools
fleetModelReturns(m, rt, resp) ==
  LET counted == [rt EXCEPT !.turn = @ + 1, !.response = resp,
                            !.currentRun = [@ EXCEPT !.totalTokens =
                                                       @ + resp.total_tokens]]
      gateResult == validate(m, rt.currentStateId, resp.tool_calls)
  IN IF Len(resp.tool_calls) > 0
     THEN IF gateApplies /\ ~gateResult.allowed
          THEN [counted EXCEPT
                  !.pc = "loop",
                  !.sessionState.history =
                     @ \o << AssistantTurn(<<>>, resp.tool_calls),
                             UserTurn(generateConstraintMessage(
                               m, rt.currentStateId, gateResult.blockedTools)) >>]
          ELSE [counted EXCEPT !.pc = "tools", !.toolIdx = 1, !.toolResults = <<>>]
     ELSE fleetFinishIteration(m, counted, resp, <<>>,
            Append(rt.sessionState.history, AssistantTurn(resp.content, <<>>)),
            <<AssistantTurn(resp.content, <<>>)>>)

\* a fleet of new runtimes over an empty store; the runtime of Spec is not used
FleetInit ==
  /\ manifest = SoloManifest
  /\ ComponentInit
  /\ gate = NoGate
  /\ compiler = NoCompiler
  /\ machine = NoMachine
  /\ now = 0
  /\ db = NoDb
  /\ fleet \in {[runtimes |-> [s \in Sessions |-> NewRuntime(manifest)],
                 store |-> [s \in Sessions |-> <<>>],
                 notes |-> [p \in NotesPaths |-> <<>>],
                 scripts |-> sc] : sc \in [Sessions -> FleetScripts]}

fleetFrame == <<manifest, runtimeVars, gate, compiler, machine, now, db>>

\* initialize() of the runtime of session s
FleetInitialize(s) ==
  LET rt == fleet.runtimes[s]
      existing == fleet.store[s]
      fresh == [currentState |-> rt.currentStateId, history |-> <<>>]
  IN /\ rt.pc = "new"
     /\ fleet' =
          IF existing # <<>>
          THEN IF HasState(manifest, existing[1].currentState)
               THEN [fleet EXCEPT !.runtimes[s] =
                       [rt EXCEPT !.pc = "idle", !.sessionState = existing[1],
                                  !.currentStateId = existing[1].currentState]]
               ELSE [fleet EXCEPT !.runtimes[s] =
                       [rt EXCEPT !.pc = "failed", !.sessionState = existing[1]]]
          ELSE [fleet EXCEPT !.runtimes[s] =
                               [rt EXCEPT !.pc = "idle", !.sessionState = fresh],
                             !.store[s] = <<fresh>>]
     /\ UNCHANGED fleetFrame

\* processMessage('ok') of session s up to the loop
FleetProcessMessage(s) ==
  LET rt == fleet.runtimes[s]
  IN /\ rt.pc = "idle"
     /\ fleet' = [fleet EXCEPT !.runtimes[s] =
                    [rt EXCEPT !.pc = "loop",
                               !.currentRun = [NoRun EXCEPT !.status = "running"],
                               !.sessionState.history = Append(@, UserTurn(Ok)),
                               !.iteration = 0, !.stateIteration = 0,
                               !.finalResponse = <<>>]]
     /\ UNCHANGED fleetFrame

FleetLoopHead(s) ==
  /\ fleet.runtimes[s].pc = "loop"
  /\ fleet' = [fleet EXCEPT !.runtimes[s] = fleetLoopHead(manifest, @)]
  /\ UNCHANGED fleetFrame

\* the backend of session s answers with the next response of its script
FleetModelReturns(s) ==
  LET rt == fleet.runtimes[s]
  IN /\ rt.pc = "awaitModel"
     /\ rt.turn < Len(fleet.scripts[s])
     /\ fleet' = [fleet EXCEPT !.runtimes[s] =
                    fleetModelReturns(manifest, rt, fleet.scripts[s][rt.turn + 1])]
     /\ UNCHANGED fleetFrame

\* one pass of executeTools of session s; the memory-store call is awaited
FleetExecTool(s) ==
  LET rt == fleet.runtimes[s]
      call == rt.response.tool_calls[rt.toolIdx]
      result == IF isInternalTool(call.name)
                THEN executeInternalTool(call, fleet.notes)
                ELSE IF ~toolDefFound(manifest, call.name) THEN FailureResult
                ELSE [success |-> TRUE, output |-> <<"o","k">>]
  IN /\ rt.pc = "tools"
     /\ rt.toolIdx <= Len(rt.response.tool_calls)
     /\ fleet' = [fleet EXCEPT
                    !.runtimes[s] =
                       [rt EXCEPT !.toolIdx = @ + 1,
                                  !.toolResults =
                                     Append(@, [toolName |-> call.name,
                                                result |-> result])],
                    !.notes = IF isInternalTool(call.name)
                              THEN notesAfter(call, @) ELSE @]
     /\ UNCHANGED fleetFrame

\* executeTools of session s returned
FleetToolsDone(s) ==
  LET rt == fleet.runtimes[s]
  IN /\ rt.pc = "tools"
     /\ rt.toolIdx > Len(rt.response.tool_calls)
     /\ fleet' = [fleet EXCEPT !.runtimes[s] =
                    fleetFinishIteration(manifest, rt, rt.response, rt.toolResults,
                      rt.sessionState.history \o toolTurns(rt.response, rt.toolResults),
                      rt.finalResponse)]
     /\ UNCHANGED fleetFrame

\* setSessionState(sessionId, sessionState) and the return statement
FleetSave(s) ==
  LET rt == fleet.runtimes[s]
  IN /\ rt.pc = "save"
     /\ fleet' = [fleet EXCEPT
                    !.store[s] = <<rt.sessionState>>,
                    !.runtimes[s] =
                       IF HasState(manifest, rt.currentStateId)
                       THEN [rt EXCEPT !.pc = "done"]
                       ELSE fleetRaise(rt, <<"Current state not found">>)]
     /\ UNCHANGED fleetFrame

FleetNext ==
  \E s \in Sessions :
    \/ FleetInitialize(s)
    \/ FleetProcessMessage(s)
    \/ FleetLoopHead(s)
    \/ FleetModelReturns(s)
    \/ FleetExecTool(s)
    \/ FleetToolsDone(s)
    \/ FleetSave(s)

FleetSpec == FleetInit /\ [][FleetNext]_vars

\* --------------------------- DatabaseMemoryStore under concurrent callers
\* callers of setSessionState for the one session id
Writers == {1, 2}

\* SessionState values the callers save
SessionValues ==
  {[currentState |-> s, history |-> <<>>] : s \in {"start", "done"}}

\* JSON.stringify(state) and JSON.parse(cached)
Stringify(state) == <<"json", state.currentState, state.history>>
Parse(text) == [currentState |-> text[2], history |-> text[3]]

\* the session_states row written by the INSERT ... ON CONFLICT DO UPDATE, and
\* the SessionState read back from it
SessionRow(state) == [current_state |-> state.currentState, history |-> state.history]
RowState(row) == [currentState |-> row.current_state, history |-> row.history]

StoreInit ==
  /\ manifest = SoloManifest
  /\ ComponentInit
  /\ gate = NoGate
  /\ compiler = NoCompiler
  /\ machine = NoMachine
  /\ now = 0
  /\ fleet = NoFleet
  /\ db = [postgres |-> <<>>, redis |-> <<>>,
           writers |-> [w \in Writers |-> [pc |-> "idle", state |-> <<>>, calls |-> 0]],
           got |-> <<>>]

storeFrame == <<manifest, runtimeVars, gate, compiler, machine, now, fleet>>

\* setSessionState(sessionId, state) up to its first await: the row is written
SetPostgres(w, state) ==
  /\ db.writers[w].pc = "idle"
  /\ db.writers[w].calls < MaxSets
  /\ db' = [db EXCEPT !.postgres = <<SessionRow(state)>>,
                      !.writers[w] = [pc |-> "cache", state |-> <<state>>,
                                      calls |-> @.calls + 1],
                      !.got = <<>>]
  /\ UNCHANGED storeFrame

\* the rest of setSessionState: redis.setex with the state of this call
SetRedis(w) ==
  /\ db.writers[w].pc = "cache"
  /\ db' = [db EXCEPT !.redis = <<Stringify(db.writers[w].state[1])>>,
                      !.writers[w].pc = "idle",
                      !.writers[w].state = <<>>]
  /\ UNCHANGED storeFrame

\* the Redis entry reaches its 3600 s time to live
Expire ==
  /\ db.redis # <<>>
  /\ db' = [db EXCEPT !.redis = <<>>]
  /\ UNCHANGED storeFrame

\* getSessionState(sessionId) once no setSessionState call is in progress:
\* Redis first, Postgres on a miss, then the entry is cached
GetSessionState ==
  /\ \A w \in Writers : db.writers[w].pc = "idle"
  /\ db.got = <<>>
  /\ IF db.redis # <<>>
     THEN db' = [db EXCEPT !.got = <<[found |-> TRUE, state |-> <<Parse(db.redis[1])>>]>>]
     ELSE IF db.postgres = <<>>
     THEN db' = [db EXCEPT !.got = <<[found |-> FALSE, state |-> <<>>]>>]
     ELSE db' = [db EXCEPT
                   !.got = <<[found |-> TRUE, state |-> <<RowState(db.postgres[1])>>]>>,
                   !.redis = <<Stringify(RowState(db.postgres[1]))>>]
  /\ UNCHANGED storeFrame

StoreNext ==
  \/ \E w \in Writers, state \in SessionValues : SetPostgres(w, state)
  \/ \E w \in Writers : SetRedis(w)
  \/ Expire
  \/ GetSessionState

StoreSpec == StoreInit /\ [][StoreNext]_vars

\* ================================================================ claims
\* fsm.global_allowed_tools \cup state.allowed_tools \cup the four internal tools
EffectiveAllowed(stateId) ==
  LET state == getState(manifest, stateId)
  IN {manifest.global_allowed_tools[i] : i \in 1..Len(manifest.global_allowed_tools)}
       \cup {state.allowed_tools[i] : i \in 1..Len(state.allowed_tools)}
       \cup {"kb.search", "kb.open", "notes.write", "notes.read"}

\* the history entries appended since the call in progress started
CallHistory(history) == SubSeq(history, histBase + 1, Len(history))

\* the call has ended or is past its loop
CallEnded == pc \in {"save", "done", "failed"}

\* every model response of the call so far was blocked by the Policy Gate: each
\* model call added exactly the two corrective entries and no Step
GateBlockedEveryTurn ==
  /\ gateApplies
  /\ modelCalls >= 1
  /\ currentRun.steps = <<>>
  /\ Len(sessionState.history) = histBase + 1 + 2 * modelCalls

\* C1: with enablePolicyGate true, every tool call that was handed to the
\* ToolExecutor or run as an internal tool has a name inside the effective
\* allow-list of the state it ran in, whatever the backend reports or returns.
C1_OnlyAllowedToolsExecuted ==
  options.enablePolicyGate =>
    \A i \in 1..Len(executed) :
      executed[i].name \in EffectiveAllowed(executed[i].state)

\* C2: when the gate is applied and the model turn holds a blocked call, the
\* step that handles the response executes no tool (also not the allowed ones),
\* records no Step, appends exactly the assistant tool-call turn followed by
\* the corrective user turn, and goes back to the top of the loop.
C2_BlockedTurnExecutesNothing ==
  [][ ( /\ pc = "awaitModel"
        /\ pc' # "failed"
        /\ gateApplies
        /\ \E i \in 1..Len(response'.tool_calls) :
             response'.tool_calls[i].name \notin EffectiveAllowed(currentStateId) )
      =>
      ( LET calls_ == response'.tool_calls
            blocked == SelectSeq(ToolNames(calls_),
                         LAMBDA n : n \notin EffectiveAllowed(currentStateId))
        IN /\ executed' = executed
           /\ toolResults' = toolResults
           /\ currentRun'.steps = currentRun.steps
           /\ currentStateId' = currentStateId
           /\ pc' = "loop"
           /\ Len(sessionState'.history) = Len(sessionState.history) + 2
           /\ SubSeq(sessionState'.history, 1, Len(sessionState.history))
                = sessionState.history
           /\ sessionState'.history[Len(sessionState.history) + 1]
                = [role |-> "assistant", content |-> <<>>, tool_calls |-> calls_,
                   tool_call_id |-> 0]
           /\ sessionState'.history[Len(sessionState.history) + 2]
                = [role |-> "user",
                   content |-> generateConstraintMessage(manifest, currentStateId,
                                                         blocked),
                   tool_calls |-> <<>>, tool_call_id |-> 0] )
    ]_vars

\* a turn with one allowed and one blocked call was just blocked: nothing ran
C2_Witness ==
  /\ pc = "loop"
  /\ gateApplies
  /\ executed = <<>>
  /\ Len(sessionState.history) >= histBase + 3
  /\ LET n == Len(sessionState.history)
     IN /\ sessionState.history[n].role = "user"
        /\ sessionState.history[n].content[1] = "[POLICY GATE]"
        /\ Len(sessionState.history[n - 1].tool_calls) = 2
        /\ \E i \in 1..2 : sessionState.history[n - 1].tool_calls[i].name
                             \in EffectiveAllowed(currentStateId)

\* C3: single non-terminal state, no transitions, no fallback, gate applied and
\* every response blocked: the call ends raised with the iteration-limit error,
\* status failed, after at most maxIterationsPerState model calls.
C3_SoloBlockedRunFails ==
  ( /\ Len(manifest.states) = 1
    /\ ~manifest.states[1].is_terminal
    /\ manifest.states[1].transitions = <<>>
    /\ manifest.fallback_state = NoFallback
    /\ GateBlockedEveryTurn
    /\ CallEnded )
  =>
  ( /\ modelCalls <= options.maxIterationsPerState
    /\ pc = "failed"
    /\ currentRun.status = "failed"
    /\ currentRun.error = <<"Max iterations reached for state">> )

\* progress measure of one processMessage call
Measure ==
  20 * (options.maxTotalIterations + 1 - iteration)
    + (CASE pc = "awaitModel" -> 10
         [] pc = "tools" -> 9 - toolIdx
         [] pc = "loop" -> 3
         [] pc = "save" -> 2
         [] OTHER -> 0)

\* C4: one processMessage call invokes the model backend at most
\* maxTotalIterations times, and every step of a call in progress strictly
\* decreases a non-negative measure, so the call returns or raises.
C4_BoundedModelCalls ==
  /\ [](modelCalls <= options.maxTotalIterations /\ Measure >= 0)
  /\ [][(pc \in {"loop", "awaitModel", "tools", "save"}) => (Measure' < Measure)]_vars

\* a call that used all its maxTotalIterations model calls and returned
C4_Witness ==
  /\ pc = "done"
  /\ options.maxTotalIterations >= 2
  /\ modelCalls = options.maxTotalIterations

\* C5: when every model response of a call proposes a blocked tool, the call
\* ends with status failed (iteration limit) and is never marked completed.
C5_RepeatedViolationsFail ==
  (GateBlockedEveryTurn /\ CallEnded) =>
    ( /\ currentRun.status = "failed"
      /\ currentRun.error = <<"Max iterations reached for state">> )

\* C6: after a failed call the session state held by the MemoryStore has every
\* turn that was appended to history before the failure.
C6_FailedCallHistoryPersisted ==
  pc = "failed" =>
    /\ store # <<>>
    /\ store[1].history = sessionState.history

\* C7: after an exception the run is failed with the exception's message, the
\* same exception reaches the caller, and the partial run is persisted.
C7_FailedRunPersisted ==
  pc = "failed" =>
    /\ currentRun.status = "failed"
    /\ outcome.kind = "raised"
    /\ currentRun.error = outcome.error
    /\ \E i \in 1..Len(runSink) : runSink[i] = currentRun

\* a returned call of three model turns: blocked, one allowed tool call, final text
BlockedThenCorrected ==
  /\ pc = "done"
  /\ gateApplies
  /\ modelCalls = 3
  /\ iteration = 3
  /\ Len(currentRun.steps) = 2
  /\ currentRun.steps[1].stepNumber = 2
  /\ Len(currentRun.steps[1].toolCalls) = 1
  /\ currentRun.steps[2].stepNumber = 3
  /\ currentRun.steps[2].toolCalls = <<>>

\* C8: after such a run the persisted history of the call is exactly: user
\* message, blocked assistant tool-call turn, corrective user message, allowed
\* assistant tool-call turn, its tool result, final assistant message.
C8_HistoryIntegrity ==
  BlockedThenCorrected =>
    /\ store # <<>>
    /\ LET h == CallHistory(store[1].history)
           allowedCall == currentRun.steps[1].toolCalls[1]
       IN /\ Len(h) = 6
          /\ h[1] = [role |-> "user", content |-> userMessage,
                     tool_calls |-> <<>>, tool_call_id |-> 0]
          /\ h[2].role = "assistant"
          /\ \E i \in 1..Len(h[2].tool_calls) :
               h[2].tool_calls[i].name
                 \notin EffectiveAllowed(currentRun.steps[1].state)
          /\ h[3].role = "user"
          /\ h[3].content[1] = "[POLICY GATE]"
          /\ h[4].role = "assistant"
          /\ h[4].tool_calls = <<allowedCall>>
          /\ h[5].role = "tool"
          /\ h[5].tool_call_id = allowedCall.id
          /\ h[5].content = currentRun.steps[1].toolResults[1].output
          /\ h[6] = [role |-> "assistant", content |-> currentRun.steps[2].output,
                     tool_calls |-> <<>>, tool_call_id |-> 0]

C8_Witness == BlockedThenCorrected /\ store # <<>> /\ Len(store[1].history) >= 6

\* C9: in the welcome/triage manifest, "I have a headache" answered with plain
\* text in `welcome` returns currentState triage after one iteration with zero
\* tool calls in the step, and isTerminal false.
C9_HeadacheReturnsNotTerminal ==
  ( /\ manifest = TriageManifest
    /\ calls = 1
    /\ pc = "done"
    /\ userMessage = IHaveAHeadache
    /\ modelCalls = 1
    /\ Len(currentRun.steps) = 1
    /\ currentRun.steps[1].state = "welcome"
    /\ response.tool_calls = <<>> )
  =>
  ( /\ outcome.state = "triage"
    /\ iteration = 1
    /\ currentRun.steps[1].toolCalls = <<>>
    /\ outcome.isTerminal = FALSE )

\* indices of the transitions of `stateId`, in declaration order, that match
Matching(stateId, context) ==
  LET ts == getState(manifest, stateId).transitions
  IN {i \in 1..Len(ts) : shouldTransition(ts[i], context)}

\* C10: when some transition of the active state matches, evaluateTransitions
\* applies the matching one of highest priority, the first declared among equal
\* priorities: the pointer moves to its target and the result names it.
C10_HighestPriorityFirstDeclared ==
  lastEval # <<>> =>
    LET context == lastEval[1].context
        result == lastEval[1].result
        ts == getState(manifest, result.fromState).transitions
        M == Matching(result.fromState, context)
    IN M # {} =>
         LET best == CHOOSE i \in M :
                       \A j \in M : \/ ts[j].priority < ts[i].priority
                                    \/ (ts[j].priority = ts[i].priority /\ i <= j)
         IN /\ result.transitioned
            /\ result.trigger = <<ts[best]>>
            /\ result.toState = ts[best].to_state
            /\ currentStateId = ts[best].to_state

\* three transitions match (priorities 1, 5, 5): the first priority-5 one won
C10_Witness ==
  /\ lastEval # <<>>
  /\ Cardinality(Matching(lastEval[1].result.fromState, lastEval[1].context)) = 3
  /\ lastEval[1].result.toState = "high"
  /\ currentStateId = "high"

\* C11: for a state of the manifest, validate blocks a proposed name if and only
\* if the name is outside global_allowed_tools, the state's allowed_tools and the
\* four internal tools; every blocked name is one of the proposed names.
C11_BlocksExactlyOutsideNames ==
  (gate.validation # <<>> /\ HasState(manifest, gate.stateId)) =>
    LET names == ToolNames(gate.toolCalls)
        blockedTools == gate.validation[1].blockedTools
    IN /\ \A i \in 1..Len(blockedTools) :
            /\ blockedTools[i] \notin EffectiveAllowed(gate.stateId)
            /\ \E j \in 1..Len(names) : names[j] = blockedTools[i]
       /\ \A j \in 1..Len(names) :
            names[j] \notin EffectiveAllowed(gate.stateId)
              => \E i \in 1..Len(blockedTools) : blockedTools[i] = names[j]

\* a global tool and an internal tool pass while an unregistered name is blocked
C11_Witness ==
  /\ gate.validation # <<>>
  /\ manifest = PriorityManifest
  /\ gate.stateId = "high"
  /\ ToolNames(gate.toolCalls) = <<"db.write", "ghost.tool", "notes.write">>
  /\ gate.validation[1].blockedTools = <<"ghost.tool">>

\* filter splits the calls as validate judged them, keeping the input order
FilterAgreesWithValidate ==
  gate.filtered # <<>> =>
    LET blockedTools == gate.validation[1].blockedTools
        parts == gate.filtered[1]
        inBlocked(c) == \E i \in 1..Len(parts.blocked) : parts.blocked[i] = c
    IN /\ ToolNames(parts.blocked) = blockedTools
       /\ parts.allowed = SelectSeq(gate.toolCalls, LAMBDA c : ~inBlocked(c))
       /\ parts.blocked = SelectSeq(gate.toolCalls, LAMBDA c : inBlocked(c))
       /\ Len(parts.allowed) + Len(parts.blocked) = Len(gate.toolCalls)

\* C12 as stated: for every state id, known or unknown, allowed is true exactly
\* when blockedTools is empty, and filter partitions the calls as validate does.
C12_AllowedIffNothingBlocked ==
  /\ gate.validation # <<>> =>
        (gate.validation[1].allowed <=> gate.validation[1].blockedTools = <<>>)
  /\ FilterAgreesWithValidate

\* C12 amended: allowed is true only when blockedTools is empty, and exactly then
\* for a known state id or a non-empty call list (an unknown state id with no
\* calls gives allowed false with nothing blocked); filter partitions the calls
\* as validate does, in input order, losing and duplicating none.
C12_AllowedOnlyIfNothingBlocked ==
  /\ gate.validation # <<>> =>
        /\ gate.validation[1].allowed => gate.validation[1].blockedTools = <<>>
        /\ (HasState(manifest, gate.stateId) \/ gate.toolCalls # <<>>) =>
              (gate.validation[1].blockedTools = <<>> => gate.validation[1].allowed)
        /\ (~HasState(manifest, gate.stateId) /\ gate.toolCalls = <<>>) =>
              (~gate.validation[1].allowed /\ gate.validation[1].blockedTools = <<>>)
  /\ FilterAgreesWithValidate

\* an unknown state id with two calls: all blocked by both operations
C12_Witness ==
  /\ gate.filtered # <<>>
  /\ ~HasState(manifest, gate.stateId)
  /\ Len(gate.toolCalls) = 2
  /\ gate.filtered[1].blocked = gate.toolCalls
  /\ ~gate.validation[1].allowed

\* C13: two compilePrompt calls with the same manifest, state id and options
\* object give the same outcome: the same system text, tool list, tool-choice
\* policy, allowed tool names and retrieval hints, or both raise.
C13_CompileTwiceSameOutput ==
  Len(compiler.results) >= 2 => compiler.results[1] = compiler.results[2]

\* two calls returned for hints the caller passed out of order, two of them of
\* equal relevance
C13_Witness ==
  /\ Len(compiler.results) = 2
  /\ compiler.results[2].kind = "returned"
  /\ compiler.given.retrieval_hints # <<>>
  /\ LET hints == compiler.given.retrieval_hints[1]
     IN /\ Len(hints) = 2
        /\ hints[1].relevance = hints[2].relevance
        /\ hints[1] # hints[2]

\* C14: after a compilePrompt call the options object is as the caller built it,
\* the order of the elements of options.retrieval_hints included.
C14_CompileLeavesOptionsUnchanged ==
  compiler.results # <<>> => compiler.options = compiler.given

\* C15: allowed_tool_names of a compiled prompt is global_allowed_tools and the
\* state's allowed_tools with the four internal tools appended: the effective
\* allow-list the Policy Gate enforces for that state.
C15_CompilerAllowListIsGateAllowList ==
  \A i \in 1..Len(compiler.results) :
    compiler.results[i].kind = "returned" =>
      /\ Range(compiler.results[i].allowed_tool_names)
           = EffectiveAllowed(compiler.stateId)
      /\ Range(compiler.results[i].allowed_tool_names)
           = Range(getAllowedTools(manifest, getState(manifest, compiler.stateId)))

\* C16: the tool-choice policy of a compiled prompt is "none" when its allowed
\* tool names are empty and "auto" otherwise, never anything else.
C16_PolicyNoneOrAuto ==
  \A i \in 1..Len(compiler.results) :
    compiler.results[i].kind = "returned" =>
      compiler.results[i].tool_choice_policy
        = (IF compiler.results[i].allowed_tool_names = <<>> THEN "none" ELSE "auto")

\* a prompt compiled for a state that is not terminal and allows two tools
C16_Witness ==
  /\ compiler.results # <<>>
  /\ compiler.results[1].kind = "returned"
  /\ ~getState(manifest, compiler.stateId).is_terminal
  /\ Len(compiler.results[1].allowed_tool_names) = 2
  /\ compiler.results[1].tool_choice_policy = "auto"

\* C17: an unknown state identifier is fatal and moves nothing: compilePrompt
\* raises for a state id that matches no state, the StateMachine constructor
\* raises (and builds no machine) when its starting state is not in the manifest,
\* and transitionTo raises for an unknown target with the pointer where it was.
C17_UnknownStateIsFatal ==
  machine.last # <<>> =>
    LET l == machine.last[1]
        start == IF l.arg # "" THEN l.arg ELSE manifest.initial_state
    IN /\ (l.op = "compilePrompt" /\ ~HasState(manifest, l.arg)) =>
            (l.kind = "raised" /\ machine.currentStateId = l.before)
       /\ (l.op = "new" /\ ~HasState(manifest, start)) =>
            (l.kind = "raised" /\ ~machine.constructed)
       /\ (l.op = "transitionTo" /\ ~HasState(manifest, l.arg)) =>
            (l.kind = "raised" /\ machine.currentStateId = l.before)

\* a machine that had left its initial state refused transitionTo("nowhere")
C17_Witness ==
  /\ machine.constructed
  /\ machine.last # <<>>
  /\ machine.last[1].op = "transitionTo"
  /\ machine.last[1].arg = "nowhere"
  /\ machine.last[1].kind = "raised"
  /\ machine.currentStateId # manifest.initial_state
  /\ HasState(manifest, machine.currentStateId)

\* C18: when the state evaluated has a timeout transition of threshold 0 ms,
\* evaluateTransitions fires whatever the message, the tool results and the
\* entry time are: it applies that transition, unless a transition that ranks
\* before it (higher priority, or equal priority and declared earlier) matched.
C18_ZeroTimeoutFires ==
  ( /\ machine.last # <<>>
    /\ machine.last[1].op = "evaluateTransitions"
    /\ machine.last[1].kind = "returned" )
  =>
  LET ts == getState(manifest, machine.last[1].before).transitions
      result == machine.last[1].result[1]
  IN \A i \in 1..Len(ts) :
       (ts[i].when.type = "timeout" /\ ts[i].when.value = <<"0">>) =>
         /\ result.transitioned
         /\ \/ /\ result.trigger = <<ts[i]>>
               /\ machine.currentStateId = ts[i].to_state
            \/ \E j \in 1..Len(ts) :
                 /\ result.trigger = <<ts[j]>>
                 /\ \/ ts[j].priority > ts[i].priority
                    \/ (ts[j].priority = ts[i].priority /\ j < i)

\* the 0 ms timeout fired in the very millisecond the state was entered, for a
\* message that matches no intent and a tool result that matches a lower trigger
C18_Witness ==
  /\ machine.last # <<>>
  /\ machine.last[1].op = "evaluateTransitions"
  /\ machine.last[1].before = "waiting"
  /\ machine.last[1].context[1].lastUserMessage = Ok
  /\ machine.last[1].context[1].lastToolResult # <<>>
  /\ machine.last[1].context[1].stateEnteredAt = now
  /\ now > 0
  /\ machine.last[1].result[1].toState = "expired"
  /\ machine.currentStateId = "expired"

\* C19: a cancellation requested between two iterations is seen at the top of
\* the loop: no further model call or tool execution is made, and the call ends
\* with status cancelled (not failed) and the Steps recorded until then.
C19_CancelledBetweenIterations ==
  cancel # <<>> =>
    /\ pc \notin {"awaitModel", "tools"}
    /\ pc \in {"save", "done", "failed"} =>
          /\ currentRun.status = "cancelled"
          /\ currentRun.steps = cancel[1]

\* C20: within a call run.steps only grows by appending: each step leaves the
\* recorded Steps as they are, or adds one at the end; every Step carries the
\* number of the iteration that recorded it, so at most one is added per loop
\* iteration and stepNumber increases strictly along the list.
C20_StepsAppendOnly ==
  /\ [][ (pc \in {"loop", "awaitModel", "tools", "save"}) =>
           \/ currentRun'.steps = currentRun.steps
           \/ /\ Len(currentRun'.steps) = Len(currentRun.steps) + 1
              /\ SubSeq(currentRun'.steps, 1, Len(currentRun.steps)) = currentRun.steps
              /\ iteration' = iteration
              /\ currentRun'.steps[Len(currentRun'.steps)].stepNumber = iteration
       ]_vars
  /\ [](\A i \in 1..Len(currentRun.steps) :
          /\ currentRun.steps[i].stepNumber <= iteration
          /\ \A j \in 1..(i - 1) :
               currentRun.steps[j].stepNumber < currentRun.steps[i].stepNumber)

\* a finished call that recorded two Steps in two states: the second was
\* recorded after a transition had reset the per-state counter
C20_Witness ==
  /\ pc = "done"
  /\ Len(currentRun.steps) = 2
  /\ currentRun.steps[1].state # currentRun.steps[2].state
  /\ currentRun.steps[1].stepNumber = 1
  /\ currentRun.steps[2].stepNumber = 2

\* C21: after every successful processMessage call the currentState of the
\* persisted Session State is the state returned to the caller, whatever path
\* the loop took (the per-state limit moving the machine to the fallback state
\* included), so a runtime initialized from the store resumes there.
C21_PersistedStateIsReturnedState ==
  (pc = "done" /\ outcome.kind = "returned") =>
    /\ store # <<>>
    /\ store[1].currentState = outcome.state

\* C22: the per-state bound the loop applies is the active state's own cap: a
\* state with max_iterations = k runs at most k consecutive iterations (model
\* calls without leaving the state) before the loop tries the fallback or fails.
C22_StateCapBoundsIterations ==
  (pc = "awaitModel" /\ HasState(manifest, currentStateId)) =>
    stateIteration <= getState(manifest, currentStateId).max_iterations

\* a step that ends a loop iteration without an exception
IterationEnds == pc \in {"awaitModel", "tools"} /\ pc' \in {"loop", "save"}

\* the iteration that just ended met one of the two stop conditions: a natural
\* stop without tool calls, or transitions were evaluated, the state now active
\* is terminal and a final answer exists
StopsHere ==
  \/ response'.finish_reason = "stop" /\ response'.tool_calls = <<>>
  \/ /\ lastEval' # <<>>
     /\ HasState(manifest, currentStateId')
     /\ getState(manifest, currentStateId').is_terminal
     /\ finalResponse' # <<>>

\* C23: an iteration that met a stop condition ends the loop (the run is
\* completed and no model call follows in this call); every other iteration
\* (tool calls pending or blocked, or a non-stop finish in a non-terminal state
\* or without a final answer) leads back to the head of the loop, which starts
\* another iteration and reaches the model when the bounds allow.
C23_StopsExactlyOnStopConditions ==
  /\ [][IterationEnds =>
          IF StopsHere
          THEN pc' = "save" /\ currentRun'.status = "completed"
          ELSE pc' = "loop" /\ currentRun'.status = "running"]_vars
  /\ [][pc = "save" =>
          /\ pc' \in {"done", "failed"}
          /\ totalModelCalls' = totalModelCalls]_vars
  /\ [][(/\ pc = "loop"
         /\ whileCondition
         /\ stateIteration < options.maxIterationsPerState
         /\ HasState(manifest, currentStateId)) =>
          pc' = "awaitModel" /\ iteration' = iteration + 1]_vars

\* the loop has just stopped on the second condition: the answer ended with
\* finish reason 'length' and a transition led to a terminal state
C23_Witness ==
  /\ pc = "save"
  /\ lastEval # <<>>
  /\ lastEval[1].result.transitioned
  /\ response.finish_reason = "length"
  /\ finalResponse # <<>>
  /\ getState(manifest, currentStateId).is_terminal

\* C24: the tool calls of one model turn are handled one at a time in the order
\* the model returned them: each pass of executeTools answers the next call of
\* the list and nothing else runs in between, the results are kept in call
\* order, and the history receives the assistant tool-call turn directly
\* followed by one tool turn per result in that order.
C24_ToolsRunInOrder ==
  /\ [](pc = "tools" =>
          /\ toolIdx = Len(toolResults) + 1
          /\ Len(toolResults) <= Len(response.tool_calls)
          /\ \A i \in 1..Len(toolResults) :
               toolResults[i].toolName = response.tool_calls[i].name)
  /\ [][(pc = "tools" /\ pc' = "tools") =>
          /\ Len(toolResults') = Len(toolResults) + 1
          /\ SubSeq(toolResults', 1, Len(toolResults)) = toolResults
          /\ toolResults'[toolIdx].toolName = response.tool_calls[toolIdx].name
          /\ Len(executed') <= Len(executed) + 1
          /\ Len(executed') = Len(executed) + 1 =>
               executed'[Len(executed')].name = response.tool_calls[toolIdx].name
          /\ response' = response
          /\ sessionState' = sessionState]_vars
  /\ [][(pc = "tools" /\ pc' \in {"loop", "save"}) =>
          LET old == sessionState.history
              new == sessionState'.history
              n == Len(response.tool_calls)
          IN /\ Len(toolResults) = n
             /\ Len(new) = Len(old) + 1 + n
             /\ SubSeq(new, 1, Len(old)) = old
             /\ new[Len(old) + 1].role = "assistant"
             /\ new[Len(old) + 1].tool_calls = response.tool_calls
             /\ \A i \in 1..n :
                  /\ new[Len(old) + 1 + i].role = "tool"
                  /\ new[Len(old) + 1 + i].content = toolResults[i].result.output]_vars

\* a turn with two tool calls was executed with different results, and both
\* tool turns are in the history
C24_Witness ==
  /\ pc \in {"loop", "save"}
  /\ Len(response.tool_calls) = 2
  /\ Len(toolResults) = 2
  /\ toolResults[1].result # toolResults[2].result
  /\ Len(executed) = 2
  /\ sessionState.history[Len(sessionState.history)].role = "tool"
  /\ sessionState.history[Len(sessionState.history) - 1].role = "tool"

\* executeTools has returned and at least one result reports a failure
FailedToolTurn ==
  /\ pc = "tools"
  /\ toolIdx > Len(response.tool_calls)
  /\ \E i \in 1..Len(toolResults) : ~toolResults[i].result.success

\* the failed results of the turn are in the history as tool turns
FailuresInHistory ==
  LET new == sessionState'.history
      n == Len(toolResults)
  IN \A i \in 1..n :
       /\ new[Len(new) - n + i].role = "tool"
       /\ new[Len(new) - n + i].content = toolResults[i].result.output

\* one pass of executeTools meets a tool-level failure without raising: the
\* result is recorded with success false, a tool absent from the registry never
\* reaches the executor, and the run stays as it was
FailureBecomesResult ==
  (pc = "tools" /\ pc' = "tools") =>
    /\ currentRun' = currentRun
    /\ Len(toolResults') = Len(toolResults) + 1
    /\ (~isInternalTool(response.tool_calls[toolIdx].name)
         /\ response.tool_calls[toolIdx].name \notin Range(manifest.tools)) =>
          /\ ~toolResults'[toolIdx].result.success
          /\ executed' = executed

\* C25 as stated: after a model turn in which a tool failed (executor answered
\* success false, tool absent from the registry, or the notes memory call
\* threw) the tool-result turns are in the history and the loop continues to
\* the next iteration with the run still running.
C25_FailedToolTurnContinues ==
  /\ [][FailureBecomesResult]_vars
  /\ [][FailedToolTurn =>
          /\ FailuresInHistory
          /\ pc' = "loop"
          /\ currentRun'.status = "running"]_vars

\* C25 amended: a tool-level failure never fails the run; the tool-result turns
\* are in the history and the loop continues with the run still running, unless
\* the turn's transition evaluation reached a terminal state after a final
\* answer had been produced, in which case the run ends completed.
C25_FailedToolTurnNeverFails ==
  /\ [][FailureBecomesResult]_vars
  /\ [][FailedToolTurn =>
          /\ FailuresInHistory
          /\ currentRun'.status # "failed"
          /\ \/ pc' = "loop" /\ currentRun'.status = "running"
             \/ /\ pc' = "save"
                /\ currentRun'.status = "completed"
                /\ getState(manifest, currentStateId').is_terminal
                /\ finalResponse' # <<>>]_vars

\* a turn whose only tool call failed inside the notes tool has ended, and the
\* loop is back at its head with the run running
C25_Witness ==
  /\ pc = "loop"
  /\ lastEval # <<>>
  /\ currentRun.status = "running"
  /\ Len(toolResults) = 1
  /\ toolResults[1].toolName = "notes.write"
  /\ ~toolResults[1].result.success
  /\ sessionState.history[Len(sessionState.history)].role = "tool"

RECURSIVE replayTools(_, _, _)
\* executeTools run without another session in between: its results and the
\* long-term memory after it
replayTools(toolCalls, notes, results) ==
  IF toolCalls = <<>>
  THEN [results |-> results, notes |-> notes]
  ELSE LET call == Head(toolCalls)
       IN replayTools(Tail(toolCalls), notesAfter(call, notes),
                      Append(results, [toolName |-> call.name,
                                       result |-> executeInternalTool(call, notes)]))

RECURSIVE replayCall(_, _, _)
\* a processMessage call of a notes-only backend run alone in a state without
\* transitions: the history and the long-term memory at its end
replayCall(script, history, notes) ==
  IF script = <<>>
  THEN [history |-> history, notes |-> notes]
  ELSE LET resp == Head(script)
           tools == replayTools(resp.tool_calls, notes, <<>>)
       IN IF resp.tool_calls = <<>>
          THEN [history |-> Append(history, AssistantTurn(resp.content, <<>>)),
                notes |-> notes]
          ELSE replayCall(Tail(script),
                          history \o toolTurns(resp, tools.results), tools.notes)

\* the histories of the two sessions when `first` runs its call before `second`
SerialHistories(first, second) ==
  LET a == replayCall(fleet.scripts[first], <<UserTurn(Ok)>>,
                      [p \in NotesPaths |-> <<>>])
      b == replayCall(fleet.scripts[second], <<UserTurn(Ok)>>, a.notes)
  IN [s \in Sessions |-> IF s = first THEN a.history ELSE b.history]

FleetDone == \A s \in Sessions : fleet.runtimes[s].pc = "done"

\* C26: two runtimes with different session ids over one MemoryStore, their
\* processMessage calls interleaved at the awaits: when both calls have
\* returned, each session's history, current state and run are what one of the
\* two serial orders produces, each session's stored state is its own, and no
\* step of one runtime changes the other session's stored state.
C26_SessionsIndependent ==
  /\ [](FleetDone =>
          \E first \in Sessions : \E second \in Sessions \ {first} :
            \A s \in Sessions :
              /\ fleet.runtimes[s].sessionState.history =
                   SerialHistories(first, second)[s]
              /\ fleet.runtimes[s].currentStateId = manifest.initial_state
              /\ fleet.runtimes[s].currentRun.status = "completed"
              /\ fleet.store[s] = <<fleet.runtimes[s].sessionState>>)
  /\ [][\A s \in Sessions :
          fleet'.store[s] # fleet.store[s] =>
            /\ fleet'.runtimes[s] # fleet.runtimes[s]
            /\ fleet'.store[s] = <<fleet'.runtimes[s].sessionState>>]_vars

\* what the claim counts as a number: a number, or a text of digits
IsNumeric(v) ==
  \/ v[1] = "number"
  \/ v[1] = "string" /\ v[2] # <<>> /\ \A i \in 1..Len(v[2]) : isDigit(v[2][i])

NumericValue(v) == IF v[1] = "number" THEN v[2] ELSE DigitsPrefix(v[2], 0)

Compare(a, operator, b) ==
  CASE operator = ">" -> a > b
    [] operator = "<" -> a < b
    [] operator = ">=" -> a >= b
    [] operator = "<=" -> a <= b

\* the latest call evaluated the numeric condition trigger of state `check`
ConditionEvaluated ==
  /\ manifest \in ConditionManifests
  /\ machine.last # <<>>
  /\ machine.last[1].op = "evaluateTransitions"
  /\ machine.last[1].before = "check"

\* C27: a condition trigger with a numeric operator matches exactly when the
\* resolved variable and the literal are both numbers and the comparison holds;
\* with an undefined variable, null, a boolean, an empty or non-digit text on
\* either side it does not match, and the evaluation raises nothing.
C27_NumericConditionNeedsNumbers ==
  ConditionEvaluated =>
    LET condition == getState(manifest, "check").transitions[1].when.value
        actual == resolveVariable(condition[1], machine.last[1].context[1])
        literal == Str(condition[3])
    IN /\ machine.last[1].kind = "returned"
       /\ machine.last[1].result[1].transitioned <=>
            /\ IsNumeric(actual)
            /\ IsNumeric(literal)
            /\ Compare(NumericValue(actual), condition[2], NumericValue(literal))

\* C28: when the loop evaluates the transitions of a state whose trigger is a
\* timeout of T ms, the trigger matches exactly when T ms or more have passed
\* since the session entered that state, also when it entered it during an
\* earlier processMessage call.
C28_TimeoutCountsFromStateEntry ==
  [][(/\ pc \in {"awaitModel", "tools"}
      /\ lastEval' # <<>>
      /\ HasState(manifest, currentStateId)
      /\ Len(getState(manifest, currentStateId).transitions) = 1
      /\ getState(manifest, currentStateId).transitions[1].when.type = "timeout") =>
       LET T == parseInt(getState(manifest, currentStateId).transitions[1].when.value)
       IN T # <<>> =>
            (lastEval'[1].result.transitioned <=> now - enteredAt >= T[1])]_vars

ToolAppendixOf(result) ==
  LET k == FirstIndex([i_ \in 1..Len(result.system) |->
                         result.system[i_][1] = <<"# Available Tools">>])
  IN IF k = 0 THEN <<>> ELSE result.system[k]

\* the names of the tool blocks of an appendix, in the order rendered
RenderedTools(appendix) ==
  LET heads == SelectSeq(appendix, LAMBDA line : Len(line) = 2 /\ line[1] = "##")
  IN [i \in 1..Len(heads) |-> heads[i][2]]

\* the allowed tools the registry defines
AllowedRegistryTools(m, result) ==
  {m.tool_defs[i].name : i \in 1..Len(m.tool_defs)}
    \cap Range(result.allowed_tool_names)

\* C30: the tool appendix of a compiled prompt has exactly one block for every
\* allowed tool the registry defines, an allowed tool that serialization_order
\* does not list included, no tool twice; the blocks follow serialization_order
\* when the manifest gives one and the alphabet otherwise.
C30_AppendixRendersEveryAllowedTool ==
  \A r \in 1..Len(compiler.results) :
    (compiler.results[r].kind = "returned"
       /\ compiler.results[r].allowed_tool_names # <<>>) =>
      LET names == RenderedTools(ToolAppendixOf(compiler.results[r]))
          order == manifest.serialization_order
          place(n) == FirstIndex([i_ \in 1..Len(order[1]) |-> order[1][i_] = n])
      IN /\ Range(names) = AllowedRegistryTools(manifest, compiler.results[r])
         /\ \A i, j \in 1..Len(names) : i < j => names[i] # names[j]
         /\ \A i, j \in 1..Len(names) :
              i < j =>
                IF order = <<>> THEN NameRank(names[i]) < NameRank(names[j])
                ELSE (place(names[i]) # 0 /\ place(names[j]) # 0)
                       => place(names[i]) < place(names[j])

\* the contents of the prompt fragments a state section shows, in the order
\* shown: the lines under a role heading
RenderedFragments(section) ==
  LET shown == SelectSeq(section,
                 LAMBDA line : Len(line) = 2
                   /\ line[1] \in {"## Instructions", "## Context", "## Examples",
                                   "## System"})
  IN [i \in 1..Len(shown) |-> shown[i][2]]

\* the declaration index of the fragment of `state` with this content
FragmentIndex(state, content) ==
  FirstIndex([i_ \in 1..Len(state.prompt_blocks) |->
                state.prompt_blocks[i_].content = content])

\* C31: the state section of a compiled prompt shows every prompt fragment of
\* the state whatever its role, except the 'examples' fragments when
\* include_examples is false, each once, in descending priority order with
\* equal priorities in declaration order.
C31_StateSectionRendersEveryFragment ==
  \A r \in 1..Len(compiler.results) :
    compiler.results[r].kind = "returned" =>
      LET state == getState(manifest, compiler.stateId)
          blocks == state.prompt_blocks
          shown == RenderedFragments(compiler.results[r].system[3])
          at(i) == FragmentIndex(state, shown[i])
      IN /\ Range(shown) =
              {blocks[i].content : i \in
                 {k \in 1..Len(blocks) :
                    ~(blocks[k].role = "examples"
                        /\ compiler.given.include_examples = "false")}}
         /\ \A i, j \in 1..Len(shown) :
              i < j =>
                \/ blocks[at(i)].priority > blocks[at(j)].priority
                \/ /\ blocks[at(i)].priority = blocks[at(j)].priority
                   /\ at(i) < at(j)

\* C32: the message list of every model call is the compiled system prompt of
\* the active state followed by the last min(20, |history|) history entries in
\* their order, and never has more than 21 messages.
C32_MessagesAreSystemPlusWindow ==
  pc = "awaitModel" =>
    LET history == sessionState.history
        k == IF Len(history) < 20 THEN Len(history) ELSE 20
    IN /\ Len(sent) = 1 + k
       /\ Len(sent) <= 21
       /\ sent[1].role = "system"
       /\ sent[1].content =
            compilePrompt(Authored(manifest), currentStateId, NoOptions).system
       /\ \A i \in 1..k : sent[1 + i] = history[Len(history) - k + i]

\* a model call made with a history longer than the window
C32_Witness ==
  /\ pc = "awaitModel"
  /\ Len(sessionState.history) > 20
  /\ Len(sent) = 21
  /\ sent[21] = sessionState.history[Len(sessionState.history)]

\* the tool calls of the Steps of a run, counted
RECURSIVE ToolCallsMade(_)
ToolCallsMade(steps) ==
  IF steps = <<>> THEN 0
  ELSE Len(Head(steps).toolCalls) + ToolCallsMade(Tail(steps))

\* C33: the transition context carries per-state counters: `iteration` is the
\* number of iterations run in the active state since it was entered and
\* `tool_calls_count` the number of tool calls made in it since then, over all
\* its iterations. Stated for the evaluations of a session's first call made
\* before any change of state, where the active state was entered at
\* construction and the calls made in it are those of the Steps of this call.
C33_ContextCountsPerState ==
  [][(/\ pc \in {"awaitModel", "tools"}
      /\ lastEval' # <<>>
      /\ calls = 1
      /\ stateIteration = iteration) =>
       /\ lastEval'[1].context.iteration = stateIteration
       /\ lastEval'[1].context.toolCallsCount = ToolCallsMade(currentRun'.steps)]_vars

\* a tool result satisfies an outcome: success, error, or the literal is part
\* of the serialized output
Satisfies(result, resultPattern) ==
  IF resultPattern = SuccessPattern THEN result.success
  ELSE IF resultPattern = ErrorPattern THEN ~result.success
  ELSE includes(result.output, resultPattern)

\* C34: a tool_result trigger toolName:outcome matches exactly when the tool
\* results of the latest turn hold a result of toolName that satisfies the
\* outcome, a later result of a tool called twice included, and never without
\* tool results. Stated where the active state's transitions are all
\* tool_result triggers: the machine moves exactly when one of them has such a
\* result.
C34_ToolResultMatchesAnyResult ==
  [][(/\ machine' # machine
      /\ machine'.last[1].op = "evaluateTransitions"
      /\ machine'.last[1].kind = "returned"
      /\ getState(manifest, machine.currentStateId).transitions # <<>>
      /\ \A i \in 1..Len(getState(manifest, machine.currentStateId).transitions) :
           getState(manifest, machine.currentStateId).transitions[i].when.type
             = "tool_result") =>
       LET transitions == getState(manifest, machine.currentStateId).transitions
           results == machine'.last[1].context[1].lastToolResult
       IN machine'.last[1].result[1].transitioned
            = (\E i \in 1..Len(transitions), k \in 1..Len(results) :
                 /\ results[k].toolName = transitions[i].when.value[1]
                 /\ Satisfies(results[k].result, transitions[i].when.value[2]))]_vars

\* C35: a run is reported 'completed' only when the loop stopped on a final
\* answer; a call whose loop ran out of maxTotalIterations without a final
\* answer does not return a 'completed' run with an empty message.
C35_CompletedMeansAnswered ==
  (outcome.kind = "returned" /\ outcome.run.status = "completed") =>
    /\ finalResponse # <<>>
    /\ outcome.message # <<>>

\* the token totals of the Steps of a run, added up
RECURSIVE StepTokens(_)
StepTokens(steps) ==
  IF steps = <<>> THEN 0
  ELSE Head(steps).tokens + StepTokens(Tail(steps))

\* C36: when a processMessage call has ended, the run's token counter is the
\* sum of the token totals of its Steps, iterations in which the Policy Gate
\* blocked the proposed calls included. Stated for the calls that return.
C36_TokensAreSumOfSteps ==
  (pc = "done" /\ outcome.kind = "returned") =>
    outcome.run.totalTokens = StepTokens(outcome.run.steps)

\* C37: every tool-result message in history carries the id of the tool call
\* that produced it: the i-th tool message after an assistant tool-call turn
\* has the id of the turn's i-th call, also when the turn calls one tool twice.
C37_ToolMessageRefersToItsCall ==
  \A p \in 1..Len(sessionState.history) :
    LET turn == sessionState.history[p]
    IN (turn.role = "assistant" /\ turn.tool_calls # <<>>) =>
         \A i \in 1..Len(turn.tool_calls) :
           (/\ p + i <= Len(sessionState.history)
            /\ \A j \in 1..i : sessionState.history[p + j].role = "tool") =>
             sessionState.history[p + i].tool_call_id = turn.tool_calls[i].id

\* C38: for a manifest that validateFSMIntegrity accepts, the current state
\* identifier of a StateMachine names a state of the manifest after any
\* sequence of evaluateTransitions, transitionTo (accepted or refused) and
\* goToFallback calls, and evaluateTransitions never raises for a missing
\* current state.
C38_ValidManifestKeepsPointerValid ==
  (machine.constructed /\ validateFSMIntegrity(manifest) = {}) =>
    /\ HasState(manifest, machine.currentStateId)
    /\ (machine.last # <<>> /\ machine.last[1].op = "evaluateTransitions")
         => machine.last[1].kind = "returned"

\* a manifest with a fallback state passed the validation and goToFallback
\* moved the machine there from another state
C38_Witness ==
  /\ machine.constructed
  /\ validateFSMIntegrity(manifest) = {}
  /\ machine.last # <<>>
  /\ machine.last[1].op = "goToFallback"
  /\ machine.last[1].arg = "true"
  /\ machine.last[1].before # manifest.fallback_state
  /\ machine.currentStateId = manifest.fallback_state

\* C39: once every setSessionState call for the session id has finished,
\* however the calls interleaved, the cached session state is the state held
\* in Postgres, and a following getSessionState returns that state.
C39_CacheEqualsDurableState ==
  (/\ db.writers # <<>>
   /\ \A w \in Writers : db.writers[w].pc = "idle"
   /\ db.postgres # <<>>) =>
    /\ db.redis # <<>> => Parse(db.redis[1]) = RowState(db.postgres[1])
    /\ db.got # <<>> =>
         /\ db.got[1].found
         /\ db.got[1].state[1] = RowState(db.postgres[1])

====
